---- MODULE Spec2Model ----
(***************************************************************************)
(* Model of the ContextExtractor of viveknigam3003/script-context.         *)
(*                                                                         *)
(* Part 1 (specification Spec): the incremental parse manager, i.e. the    *)
(* extractor instance bound to a host text buffer: the content-change      *)
(* handler, ensureIncrementalParseUpToDate, forceBuildTree and the public  *)
(* extraction calls as far as they touch the parse state.                  *)
(*                                                                         *)
(* Part 2 (specification SpecDedup): deduplicateExtractionResults applied   *)
(* to the offset ranges of the four tiers.                                 *)
(*                                                                         *)
(* Part 3 (specification SpecCtx): getContextAroundCursor and              *)
(* expandWithSyntaxSanity over well-formed documents, their syntax trees   *)
(* and the host buffer's position arithmetic.                              *)
(*                                                                         *)
(* Part 4 (specification SpecRanked): getRankedContextSections with its    *)
(* tier budgets, over the same documents.                                  *)
(***************************************************************************)
EXTENDS Integers, Sequences, FiniteSets, TLC

\* ------------------------------------------------------------------ bounds
MaxBufLen == 2      \* longest buffer text (characters)
MaxChanges == 2     \* most changes carried by one content-change event
MaxQueue == 2       \* longest pending-edit queue explored
MaxClock == 2       \* Date.now() takes the values 1..MaxClock
MaxTreeEdits == 2   \* most tree.edit calls one Tree object receives
MaxOffset == 2      \* largest offset of a range handed to the deduplication
MaxRanges == 3      \* most ranges (all tiers together) handed to the deduplication
MaxLines == 5       \* most lines of a document
MaxWindow == 2      \* most prefix lines and most suffix lines asked for
MaxFillers == 1     \* most blank and comment lines of a document
MaxSimilarity == 1  \* similarity of a block to the current block: 0 (below the threshold)..MaxSimilarity

\* ------------------------------------------------------------- characters
LF == "\n"
CR == "\r"
BufChars == {"a", LF}

\* ---------------------------------------------------------------- helpers
RECURSIVE SeqsUpTo(_, _)
SeqsUpTo(S, n) ==
  IF n = 0 THEN {<<>>}
  ELSE LET shorter == SeqsUpTo(S, n - 1)
       IN  shorter \cup {Append(s, x) : s \in {t \in shorter : Len(t) = n - 1}, x \in S}

Min(a, b) == IF a <= b THEN a ELSE b
Max(a, b) == IF a >= b THEN a ELSE b

\* Number of LF characters in s[1..n]
RECURSIVE CountLF(_, _)
CountLF(s, n) ==
  IF n = 0 THEN 0 ELSE CountLF(s, n - 1) + (IF s[n] = LF THEN 1 ELSE 0)

\* Characters after the last LF in s[1..n]
RECURSIVE TailLen(_, _)
TailLen(s, n) ==
  IF n = 0 \/ s[n] = LF THEN 0 ELSE TailLen(s, n - 1) + 1

\* The host buffer's position (1-based line and column) of a 0-based offset.
HostPositionAt(buf, off) ==
  [lineNumber |-> CountLF(buf, off) + 1, column |-> TailLen(buf, off) + 1]

\* The buffer texts explored
BufTexts == SeqsUpTo(BufChars, MaxBufLen)

\* s with s[off+1 .. off+len] replaced by text
Splice(s, off, len, text) ==
  SubSeq(s, 1, off) \o text \o SubSeq(s, off + len + 1, Len(s))

\* Stable insertion sort of a sequence of [k, v] pairs by k ascending
RECURSIVE InsertPair(_, _)
InsertPair(sorted, x) ==
  IF sorted = <<>> THEN <<x>>
  ELSE IF sorted[Len(sorted)].k <= x.k THEN Append(sorted, x)
  ELSE Append(InsertPair(SubSeq(sorted, 1, Len(sorted) - 1), x), sorted[Len(sorted)])

RECURSIVE SortPairs(_)
SortPairs(s) ==
  IF s = <<>> THEN <<>>
  ELSE InsertPair(SortPairs(SubSeq(s, 1, Len(s) - 1)), s[Len(s)])

\* Array.prototype.sort with the comparator (a, b) => Key(a) - Key(b) (stable)
SortByKey(s, Key(_)) ==
  LET sorted == SortPairs([i \in 1..Len(s) |-> [k |-> Key(s[i]), v |-> s[i]]])
  IN  [i \in 1..Len(s) |-> sorted[i].v]

\* Body(value), with the value computed once
With(value, Body(_)) == CHOOSE result \in {Body(v) : v \in {value}} : TRUE

\* ------------------------------------------------------------------ state
VARIABLES
  buffer,         \* text of the host model the extractor is bound to
  tree,           \* this.tree
  dirty,          \* this.dirty
  lastParseTime,  \* this.lastParseTime
  pendingEdits,   \* this.pendingEdits
  clock,          \* Date.now()
  received,       \* changes delivered by the host since parser.parse last returned
  lastOp          \* the last public call: what it invoked, what the parser did, how it ended

parseVars == <<buffer, tree, dirty, lastParseTime, pendingEdits, clock, received, lastOp>>

VARIABLES
  extractionResults,  \* the offsets of the four tiers handed to deduplicateExtractionResults
  deduplicated        \* whether deduplicateExtractionResults was called, and what it returned

dedupVars == <<extractionResults, deduplicated>>

VARIABLES
  extractor,          \* the document, its host and the tree state of an extractor
  ctxResult,          \* the last call of the context-window extraction and its result
  ranked              \* the last call of getRankedContextSections and its result

ctxVars == <<extractor, ctxResult, ranked>>

VARIABLES
  repeated,           \* getContextAroundCursor called again with the same arguments
  evaluation          \* one helper applied to one input: its name, arguments and value

probeVars == <<repeated, evaluation>>

vars == <<parseVars, dedupVars, ctxVars, probeVars>>

\* What each part of the model leaves alone
outsideParse == <<dedupVars, ctxVars, probeVars>>
outsideDedup == <<parseVars, ctxVars, probeVars>>
outsideCtx == <<parseVars, dedupVars, probeVars>>

\* this.tree = null
NoTree == [kind |-> "none", src |-> <<>>, edited |-> <<>>, parsedAt |-> 0]

\* A Tree object returned by parser.parse(text[, oldTree]) at time now
NewTree(text, now) == [kind |-> "tree", src |-> text, edited |-> <<>>, parsedAt |-> now]

\* tree.edit(e): the Tree object records the edit (it is mutated in place)
TreeEdit(t, e) == [t EXCEPT !.edited = Append(@, e)]

\* What one parser.parse call can do
ParseOutcomes == {"tree", "null", "throw"}

\* The extractor instance as a record of its fields
This == [tree |-> tree, dirty |-> dirty, lastParseTime |-> lastParseTime,
         pendingEdits |-> pendingEdits]

\* --------------------------------------------------- content-change events
\* One change of a content-change event of the host: range and rangeOffset are
\* positions of the buffer before the change.
ChangeOf(buf, off, len, text) ==
  LET s == HostPositionAt(buf, off)
      e == HostPositionAt(buf, off + len)
  IN  [range |-> [startLineNumber |-> s.lineNumber, startColumn |-> s.column,
                  endLineNumber |-> e.lineNumber, endColumn |-> e.column],
       rangeOffset |-> off, rangeLength |-> len, text |-> text]

\* The texts one change inserts: nothing or one character
InsertedTexts == {<<>>} \cup {<<c>> : c \in BufChars}

\* The single changes possible on buf: replace 0 or 1 characters by a text
\* (never the empty replacement of nothing)
ChangesOn(buf) ==
  {ChangeOf(buf, p[1], p[2], p[3]) :
     p \in {q \in (0..Len(buf)) \X (0..1) \X InsertedTexts :
              /\ q[1] + q[2] <= Len(buf)
              /\ ~(q[2] = 0 /\ q[3] = <<>>)}}

\* The events the host can deliver on buf: 1..MaxChanges changes with disjoint
\* ranges, in any order.
RangesDisjoint(ev) ==
  \A i, j \in 1..Len(ev) :
    i # j => \/ (ev[i].rangeOffset + ev[i].rangeLength <= ev[j].rangeOffset
                 /\ ev[i].rangeOffset < ev[j].rangeOffset)
             \/ (ev[j].rangeOffset + ev[j].rangeLength <= ev[i].rangeOffset
                 /\ ev[j].rangeOffset < ev[i].rangeOffset)

EventsOn(buf) ==
  {ev \in SeqsUpTo(ChangesOn(buf), MaxChanges) : Len(ev) >= 1 /\ RangesDisjoint(ev)}

RangeOffsetOf(c) == c.rangeOffset

\* The buffer after the host applied the changes of ev (highest offset first)
RECURSIVE ApplyDescending(_, _)
ApplyDescending(buf, sorted) ==
  IF sorted = <<>> THEN buf
  ELSE LET c == sorted[Len(sorted)]
       IN  ApplyDescending(Splice(buf, c.rangeOffset, c.rangeLength, c.text),
                           SubSeq(sorted, 1, Len(sorted) - 1))

ApplyEvent(buf, ev) == ApplyDescending(buf, SortByKey(ev, RangeOffsetOf))

\* ------------------------------------------------------- the parse manager
\* advancePointByText(start, text): the tree-sitter point after inserting text
\* text.replace(/\r\n/g, "\n"): a lone CR stays
NormalizeNewlines_CRLFOnly(text) ==
  LET keep == {i \in 1..Len(text) :
                 ~(text[i] = CR /\ i < Len(text) /\ text[i + 1] = LF)}
      RECURSIVE Build(_)
      Build(i) ==
        IF i = 0 THEN <<>>
        ELSE IF i \in keep THEN Append(Build(i - 1), text[i]) ELSE Build(i - 1)
  IN  Build(Len(text))

NormalizeNewlines(text) ==
  LET keep == {i \in 1..Len(text) :
                 ~(text[i] = LF /\ i > 1 /\ text[i - 1] = CR)}
      RECURSIVE Build(_)
      Build(i) ==
        IF i = 0 THEN <<>>
        ELSE IF i \in keep
             THEN Append(Build(i - 1), IF text[i] = CR THEN LF ELSE text[i])
             ELSE Build(i - 1)
  IN  Build(Len(text))

advancePointByText(start, text) ==
  LET norm == NormalizeNewlines(text)
      nLines == CountLF(norm, Len(norm)) + 1
  IN  IF nLines = 1
      THEN [row |-> start.row, column |-> start.column + Len(norm)]
      ELSE [row |-> start.row + (nLines - 1), column |-> TailLen(norm, Len(norm))]

\* A PendingEdit whose newEndIndex counts the normalized text
PendingEditOf_NormalizedLength(change) ==
  LET startPosition == [row |-> change.range.startLineNumber - 1,
                        column |-> change.range.startColumn - 1]
  IN  [startIndex |-> change.rangeOffset,
       oldEndIndex |-> change.rangeOffset + change.rangeLength,
       newEndIndex |-> change.rangeOffset + Len(NormalizeNewlines(change.text)),
       startPosition |-> startPosition,
       oldEndPosition |-> [row |-> change.range.endLineNumber - 1,
                           column |-> change.range.endColumn - 1],
       newEndPosition |-> advancePointByText(startPosition, change.text)]

\* The PendingEdit pushed for one change
PendingEditOf(change) ==
  LET startPosition == [row |-> change.range.startLineNumber - 1,
                        column |-> change.range.startColumn - 1]
  IN  [startIndex |-> change.rangeOffset,
       oldEndIndex |-> change.rangeOffset + change.rangeLength,
       newEndIndex |-> change.rangeOffset + Len(change.text),
       startPosition |-> startPosition,
       oldEndPosition |-> [row |-> change.range.endLineNumber - 1,
                           column |-> change.range.endColumn - 1],
       newEndPosition |-> advancePointByText(startPosition, change.text)]

\* The tree after `for (const e of this.pendingEdits) this.tree.edit(e)`
RECURSIVE ApplyPendingEdits(_, _)
ApplyPendingEdits(t, edits) ==
  IF edits = <<>> THEN t
  ELSE ApplyPendingEdits(TreeEdit(t, Head(edits)), Tail(edits))

\* The startIndex of each edit handed to tree.edit, in the order of the calls
StartIndexes(edits) == [i \in 1..Len(edits) |-> edits[i].startIndex]

\* A content-change handler that also applies the new edits to the tree at once
onModelContentChanged_EditsTree(self, changes) ==
  LET sorted == SortByKey(changes, RangeOffsetOf)
      edits == [i \in 1..Len(sorted) |-> PendingEditOf(sorted[i])]
  IN  [self |-> [self EXCEPT
                   !.pendingEdits = @ \o edits,
                   !.tree = IF @.kind = "tree" THEN ApplyPendingEdits(@, edits) ELSE @,
                   !.dirty = TRUE],
       parses |-> 0, treeEdits |-> IF self.tree.kind = "tree" THEN Len(edits) ELSE 0,
       applied |-> IF self.tree.kind = "tree" THEN StartIndexes(edits) ELSE <<>>,
       threw |-> FALSE]

\* A content-change handler that keeps only the edits of the latest event
onModelContentChanged_Overwrites(self, changes) ==
  LET sorted == SortByKey(changes, RangeOffsetOf)
  IN  [self |-> [self EXCEPT
                   !.pendingEdits = [i \in 1..Len(sorted) |-> PendingEditOf(sorted[i])],
                   !.dirty = TRUE],
       parses |-> 0, treeEdits |-> 0, applied |-> <<>>, threw |-> FALSE]

\* onModelContentChanged(e): the fields of the instance after the call, with
\* the parser.parse calls and tree.edit calls it made
onModelContentChanged(self, changes) ==
  LET sorted == SortByKey(changes, RangeOffsetOf)
  IN  [self |-> [self EXCEPT
                   !.pendingEdits = @ \o [i \in 1..Len(sorted) |-> PendingEditOf(sorted[i])],
                   !.dirty = TRUE],
       parses |-> 0, treeEdits |-> 0, applied |-> <<>>, threw |-> FALSE]

\* parser.parse(text[, oldTree]) when it does not throw
ParserParse(text, now, outcome) ==
  IF outcome = "tree" THEN NewTree(text, now) ELSE NoTree

\* ensureIncrementalParseUpToDate that leaves the dirty flag set after the reparse
ensureIncrementalParseUpToDate_StaysDirty(self, text, now, outcome) ==
  IF ~self.dirty
  THEN [self |-> self, parses |-> 0, treeEdits |-> 0, applied |-> <<>>, threw |-> FALSE]
  ELSE IF outcome = "throw"
  THEN [self |-> self, parses |-> 1, treeEdits |-> 0, applied |-> <<>>, threw |-> TRUE]
  ELSE [self |-> [tree |-> ParserParse(text, now, outcome),
                  pendingEdits |-> <<>>,
                  dirty |-> TRUE,
                  lastParseTime |-> now],
        parses |-> 1, treeEdits |-> 0, applied |-> <<>>, threw |-> FALSE]

\* ensureIncrementalParseUpToDate without the early return on a clean tree
ensureIncrementalParseUpToDate_NoDirtyCheck(self, text, now, outcome) ==
  IF self.tree.kind = "none"
  THEN IF outcome = "throw"
       THEN [self |-> self, parses |-> 1, treeEdits |-> 0, applied |-> <<>>, threw |-> TRUE]
       ELSE [self |-> [tree |-> ParserParse(text, now, outcome),
                       pendingEdits |-> <<>>,
                       dirty |-> FALSE,
                       lastParseTime |-> now],
             parses |-> 1, treeEdits |-> 0, applied |-> <<>>, threw |-> FALSE]
  ELSE LET editedTree == ApplyPendingEdits(self.tree, self.pendingEdits)
       IN  IF outcome = "throw"
           THEN [self |-> [self EXCEPT !.tree = editedTree],
                 parses |-> 1, treeEdits |-> Len(self.pendingEdits),
                 applied |-> StartIndexes(self.pendingEdits), threw |-> TRUE]
           ELSE [self |-> [tree |-> ParserParse(text, now, outcome),
                           pendingEdits |-> <<>>,
                           dirty |-> FALSE,
                           lastParseTime |-> now],
                 parses |-> 1, treeEdits |-> Len(self.pendingEdits),
                 applied |-> StartIndexes(self.pendingEdits), threw |-> FALSE]

\* ensureIncrementalParseUpToDate(), with the outcome of the parser.parse call
\* it may make; an exception of the parser leaves the method at the call.
ensureIncrementalParseUpToDate(self, text, now, outcome) ==
  IF ~self.dirty
  THEN [self |-> self, parses |-> 0, treeEdits |-> 0, applied |-> <<>>, threw |-> FALSE]
  ELSE IF self.tree.kind = "none"
  THEN IF outcome = "throw"
       THEN [self |-> self, parses |-> 1, treeEdits |-> 0, applied |-> <<>>, threw |-> TRUE]
       ELSE [self |-> [tree |-> ParserParse(text, now, outcome),
                       pendingEdits |-> <<>>,
                       dirty |-> FALSE,
                       lastParseTime |-> now],
             parses |-> 1, treeEdits |-> 0, applied |-> <<>>, threw |-> FALSE]
  ELSE LET editedTree == ApplyPendingEdits(self.tree, self.pendingEdits)
       IN  IF outcome = "throw"
           THEN [self |-> [self EXCEPT !.tree = editedTree],
                 parses |-> 1, treeEdits |-> Len(self.pendingEdits),
                 applied |-> StartIndexes(self.pendingEdits), threw |-> TRUE]
           ELSE [self |-> [tree |-> ParserParse(text, now, outcome),
                           pendingEdits |-> <<>>,
                           dirty |-> FALSE,
                           lastParseTime |-> now],
                 parses |-> 1, treeEdits |-> Len(self.pendingEdits),
                 applied |-> StartIndexes(self.pendingEdits), threw |-> FALSE]

\* ------------------------------------------------ public calls (parse side)
\* What a public call hands back once ensureIncrementalParseUpToDate returned,
\* as far as the presence of a tree decides it.
\*   getContextAroundCursor: without a tree the raw line window, tagged
\*     "fallback-lines"; with a tree one of the tree-based strategies.
\*   getGlobalDeclarations / getRelevantBlocks: without a tree the empty result.
\*   getRankedContextSections: after Tier A it dereferences this.tree!.rootNode,
\*     a TypeError when this.tree is null.
AfterEnsure(op, t) ==
  IF t.kind = "none"
  THEN CASE op = "forceBuildTree" -> [threw |-> FALSE, result |-> "void"]
         [] op = "getContextAroundCursor" -> [threw |-> FALSE, result |-> "fallback-lines"]
         [] op = "getGlobalDeclarations" -> [threw |-> FALSE, result |-> "empty"]
         [] op = "getRelevantBlocks" -> [threw |-> FALSE, result |-> "empty"]
         [] op = "getRankedContextSections" -> [threw |-> TRUE, result |-> "TypeError"]
  ELSE [threw |-> FALSE, result |-> IF op = "forceBuildTree" THEN "void" ELSE "from-tree"]

ExtractionOps ==
  {"getContextAroundCursor", "getGlobalDeclarations", "getRelevantBlocks",
   "getRankedContextSections"}

\* A public call: ensureIncrementalParseUpToDate first, then the rest
PublicCall(op, self, text, now, outcome) ==
  LET e == ensureIncrementalParseUpToDate(self, text, now, outcome)
  IN  IF e.threw
      THEN [self |-> e.self, parses |-> e.parses, treeEdits |-> e.treeEdits,
            applied |-> e.applied, threw |-> TRUE, result |-> "parser-error"]
      ELSE LET a == AfterEnsure(op, e.self.tree)
           IN  [self |-> e.self, parses |-> e.parses, treeEdits |-> e.treeEdits,
                applied |-> e.applied, threw |-> a.threw, result |-> a.result]

\* The four tiers with no range at all
Tiers == {"A", "B", "C", "D"}
NoRanges == [t \in Tiers |-> <<>>]

\* ============================ the document, the host buffer and the tree
\* ------------------------------------------------- the buffer of the host
\* A document is a sequence of lines, each of one kind:
\*   "blank"    an empty line
\*   "stmt"     g();             an expression statement holding one call
\*   "comment"  // c
\*   "fn"       function f() {   opens a function declaration
\*   "if"       if (a) {         opens an if statement
\*   "close"    }                closes the innermost open block
\* Every line but a blank one is indented by two columns per open block.
LineKinds == {"blank", "stmt", "comment", "fn", "if", "close"}
OpeningKinds == {"fn", "if"}

\* Open blocks after the first n lines
RECURSIVE DepthAfter(_, _)
DepthAfter(lines, n) ==
  IF n = 0 THEN 0
  ELSE DepthAfter(lines, n - 1)
         + (IF lines[n] \in OpeningKinds THEN 1
            ELSE IF lines[n] = "close" THEN 0 - 1 ELSE 0)

WellFormed(lines) ==
  /\ Len(lines) >= 1
  /\ \A n \in 1..Len(lines) : DepthAfter(lines, n) >= 0
  /\ DepthAfter(lines, Len(lines)) = 0

\* Number of blank and comment lines
Fillers(lines) ==
  Cardinality({i \in 1..Len(lines) : lines[i] \in {"blank", "comment"}})

Documents ==
  {lines \in SeqsUpTo(LineKinds, MaxLines) :
     WellFormed(lines) /\ Fillers(lines) <= MaxFillers}

\* Blocks open around line i
LineDepth(lines, i) ==
  IF lines[i] = "close" THEN DepthAfter(lines, i) ELSE DepthAfter(lines, i - 1)

\* The line closing the block opened on line i
CloseOf(lines, i) ==
  CHOOSE j \in (i + 1)..Len(lines) :
    /\ DepthAfter(lines, j) = DepthAfter(lines, i - 1)
    /\ \A k \in (i + 1)..(j - 1) : DepthAfter(lines, k) > DepthAfter(lines, i - 1)

\* Length of the text of a line kind, without indentation
KindLength(kind) ==
  CASE kind = "blank" -> 0
    [] kind = "stmt" -> 4
    [] kind = "comment" -> 4
    [] kind = "fn" -> 14
    [] kind = "if" -> 8
    [] kind = "close" -> 1

\* Length of the text of line i of a document whose statement and comment
\* lines are pad characters wider
TextLength(lines, pad, i) ==
  IF lines[i] = "blank" THEN 0
  ELSE 2 * LineDepth(lines, i) + KindLength(lines[i])
         + (IF lines[i] \in {"stmt", "comment"} THEN pad ELSE 0)

\* Offset of column 1 of line i, for i in 1..Len(lengths)+1
RECURSIVE OffsetOfLine(_, _)
OffsetOfLine(lengths, i) ==
  IF i <= 1 THEN 0 ELSE OffsetOfLine(lengths, i - 1) + lengths[i - 1] + 1

\* x is an extractor with its host buffer: x.lines the document, x.pad the
\* extra width of statement and comment lines, x.lineLengths and
\* x.lineStarts the length and the offset of every line, x.host the kind of
\* host buffer, x.hasTree whether this.tree is set, x.tree the nodes of the
\* tree by id and x.nodes the set of them, x.nodeIdentity whether the parser binding hands out the same
\* object for the same node, x.hasError whether the tree holds an error.
LineLength(x, i) == x.lineLengths[i]
LineCount(x) == Len(x.lines)
InBuffer(x, n) == n \in 1..LineCount(x)
LineStart(x, i) == IF i <= 1 THEN 0 ELSE x.lineStarts[i]

LineEnd(x, i) == LineStart(x, i) + LineLength(x, i)
BufferLength(x) == LineEnd(x, LineCount(x))

Clamp(v, lo, hi) == Max(lo, Min(hi, v))

\* ------------------------------------------------------ the host's model
\* Inside the buffer every host answers alike. Outside it the hosts differ:
\*   "monaco"      the editor's text model: getOffsetAt, getPositionAt and
\*                 getValueInRange clamp to the buffer, getLineMaxColumn and
\*                 getLineContent raise an error;
\*   "testDouble"  the model of the repository's tests (createMockModel):
\*                 plain arithmetic over lines[i]?.length || 0, and no
\*                 getLineContent at all.
HostKinds == {"monaco", "testDouble"}

\* The value of a host call that raised an error
Thrown == 0 - 1

getLineMaxColumn(x, n) ==
  IF InBuffer(x, n) THEN LineLength(x, n) + 1
  ELSE IF x.host = "monaco" THEN Thrown ELSE 1

\* sum over i < line - 1 of (lines[i]?.length || 0) + 1
RECURSIVE TolerantLineStart(_, _)
TolerantLineStart(x, line) ==
  IF line <= 1 THEN 0
  ELSE TolerantLineStart(x, line - 1)
         + (IF InBuffer(x, line - 1) THEN LineLength(x, line - 1) ELSE 0) + 1

getOffsetAt(x, lineNumber, column) ==
  IF x.host = "monaco"
  THEN IF lineNumber < 1 THEN 0
       ELSE IF lineNumber > LineCount(x) THEN BufferLength(x)
       ELSE LineStart(x, lineNumber) + Clamp(column, 1, LineLength(x, lineNumber) + 1) - 1
  ELSE TolerantLineStart(x, lineNumber) + column - 1

getPositionAt(x, offset) ==
  IF x.host = "monaco"
  THEN LET o == Clamp(offset, 0, BufferLength(x))
           l == CHOOSE i \in 1..LineCount(x) :
                  /\ LineStart(x, i) <= o
                  /\ \A j \in 1..LineCount(x) : LineStart(x, j) <= o => j <= i
       IN  [lineNumber |-> l, column |-> o - LineStart(x, l) + 1]
  ELSE LET reach == {i \in 1..LineCount(x) : LineEnd(x, i) >= offset}
       IN  IF reach = {}
           THEN [lineNumber |-> LineCount(x),
                 column |-> LineLength(x, LineCount(x)) + 1]
           ELSE LET l == CHOOSE i \in reach : \A j \in reach : i <= j
                IN  [lineNumber |-> l, column |-> offset - LineStart(x, l) + 1]

\* Length of lines[i]?.substring(a, b) || "" (b = -1: to the end of the line)
SubstringLength(x, line, a, b) ==
  IF ~InBuffer(x, line) THEN 0
  ELSE LET len == LineLength(x, line)
           from == Clamp(a, 0, len)
           to == IF b = Thrown THEN len ELSE Clamp(b, 0, len)
       IN  IF from <= to THEN to - from ELSE from - to

RECURSIVE MiddleLinesLength(_, _, _)
MiddleLinesLength(x, from, to) ==
  IF from > to THEN 0
  ELSE (IF InBuffer(x, from) THEN LineLength(x, from) ELSE 0)
         + MiddleLinesLength(x, from + 1, to)

\* Length of getValueInRange({startLineNumber, startColumn, endLineNumber, endColumn})
ValueLengthInRange(x, startLineNumber, startColumn, endLineNumber, endColumn) ==
  IF x.host = "monaco"
  THEN LET s == getOffsetAt(x, startLineNumber, startColumn)
           e == getOffsetAt(x, endLineNumber, endColumn)
       IN  IF s <= e THEN e - s ELSE s - e
  ELSE IF startLineNumber = endLineNumber
       THEN SubstringLength(x, startLineNumber, startColumn - 1, endColumn - 1)
       ELSE IF startLineNumber > endLineNumber THEN 0
       ELSE SubstringLength(x, startLineNumber, startColumn - 1, Thrown)
              + MiddleLinesLength(x, startLineNumber + 1, endLineNumber - 1)
              + SubstringLength(x, endLineNumber, 0, endColumn - 1)
              + (endLineNumber - startLineNumber)

\* Whether getLineContent(n) raises an error
getLineContentThrows(x, n) == x.host = "testDouble" \/ ~InBuffer(x, n)

\* lineEndColumn(lineNumber)
lineEndColumn(x, lineNumber) == getLineMaxColumn(x, lineNumber)

\* ----------------------------------------------------------- the syntax tree
\* The tree the parser builds for a document. Rows and columns are 0-based.
\* level is the depth below the root: statements of the program have level 1,
\* the body of a block (and the call of an expression statement) one more
\* than its owner, the statements of a body one more than the body.
\* Every node has an id, and knows the id of its parent (0: none).
NoNode == [type |-> "null", startRow |-> 0, startColumn |-> 0,
           endRow |-> 0, endColumn |-> 0, level |-> 0 - 1, id |-> 0, parent |-> 0]

RootId == 1
StatementId(i) == 3 * i - 1
BodyId(i) == 3 * i
CallId(i) == 3 * i + 1

\* The line opening the innermost block around line i (0: none)
OpenerOf(lines, i) ==
  LET around == {j \in 1..(i - 1) : lines[j] \in OpeningKinds /\ CloseOf(lines, j) >= i}
  IN  IF around = {} THEN 0
      ELSE CHOOSE j \in around : \A k \in around : k <= j

RootNode(x) ==
  [type |-> "program", startRow |-> 0, startColumn |-> 0,
   endRow |-> LineCount(x) - 1, endColumn |-> LineLength(x, LineCount(x)),
   level |-> 0, id |-> RootId, parent |-> 0]

StatementType(kind) ==
  CASE kind = "stmt" -> "expression_statement"
    [] kind = "comment" -> "comment"
    [] kind = "fn" -> "function_declaration"
    [] kind = "if" -> "if_statement"

LastLineOf(x, i) ==
  IF x.lines[i] \in OpeningKinds THEN CloseOf(x.lines, i) ELSE i

StatementAt(x, i) ==
  [type |-> StatementType(x.lines[i]),
   startRow |-> i - 1, startColumn |-> 2 * LineDepth(x.lines, i),
   endRow |-> LastLineOf(x, i) - 1, endColumn |-> LineLength(x, LastLineOf(x, i)),
   level |-> 2 * LineDepth(x.lines, i) + 1,
   id |-> StatementId(i),
   parent |-> IF OpenerOf(x.lines, i) = 0 THEN RootId ELSE BodyId(OpenerOf(x.lines, i))]

\* the statement_block of the block opened on line i: from its "{" to its "}"
BodyAt(x, i) ==
  [type |-> "statement_block",
   startRow |-> i - 1, startColumn |-> LineLength(x, i) - 1,
   endRow |-> LastLineOf(x, i) - 1, endColumn |-> LineLength(x, LastLineOf(x, i)),
   level |-> 2 * LineDepth(x.lines, i) + 2,
   id |-> BodyId(i), parent |-> StatementId(i)]

\* the call_expression of the expression statement on line i: all but its ";"
CallAt(x, i) ==
  [type |-> "call_expression",
   startRow |-> i - 1, startColumn |-> 2 * LineDepth(x.lines, i),
   endRow |-> i - 1, endColumn |-> LineLength(x, i) - 1,
   level |-> 2 * LineDepth(x.lines, i) + 2,
   id |-> CallId(i), parent |-> StatementId(i)]

\* parser.parse(text): the nodes of the tree, by id
Parse(x) ==
  LET nodes ==
        {RootNode(x)}
          \cup {StatementAt(x, i) : i \in {j \in 1..LineCount(x) :
                                            x.lines[j] \in {"stmt", "comment", "fn", "if"}}}
          \cup {BodyAt(x, i) : i \in {j \in 1..LineCount(x) : x.lines[j] \in OpeningKinds}}
          \cup {CallAt(x, i) : i \in {j \in 1..LineCount(x) : x.lines[j] = "stmt"}}
  IN  [id \in {n.id : n \in nodes} |-> CHOOSE n \in nodes : n.id = id]

\* The nodes of this.tree
Nodes(x) == x.nodes

PointLE(p, q) == p.row < q.row \/ (p.row = q.row /\ p.column <= q.column)

ContainsPoint(n, point) ==
  /\ PointLE([row |-> n.startRow, column |-> n.startColumn], point)
  /\ PointLE(point, [row |-> n.endRow, column |-> n.endColumn])

\* rootNode.descendantForPosition(point): the smallest node spanning the
\* point, the root when no other node spans it
descendantForPosition(x, point) ==
  LET spanning == {n \in Nodes(x) : n.level > 0 /\ ContainsPoint(n, point)}
  IN  IF spanning = {} THEN RootNode(x)
      ELSE CHOOSE n \in spanning : \A m \in spanning : m.level <= n.level

\* node.parent
parent(x, n) == IF n.parent = 0 THEN NoNode ELSE x.tree[n.parent]

\* current === this.tree.rootNode
IsRootNode(x, current) == x.nodeIdentity /\ current.type = "program"

\* Statements and comments: the nodes that have statements as siblings
IsStatementLevel(n) == n.level >= 1 /\ n.level % 2 = 1

SiblingsBefore(x, n) ==
  {q \in Nodes(x) : q.parent = n.parent /\ q.endRow < n.startRow}

SiblingsAfter(x, n) ==
  {q \in Nodes(x) : q.parent = n.parent /\ q.startRow > n.endRow}

\* node.previousSibling / previousNamedSibling (no node is missing)
previousNamedSibling(x, n) ==
  LET before == SiblingsBefore(x, n)
  IN  IF ~IsStatementLevel(n) \/ before = {} THEN NoNode
      ELSE CHOOSE q \in before : \A r \in before : r.startRow <= q.startRow

nextNamedSibling(x, n) ==
  LET after == SiblingsAfter(x, n)
  IN  IF ~IsStatementLevel(n) \/ after = {} THEN NoNode
      ELSE CHOOSE q \in after : \A r \in after : q.startRow <= r.startRow

\* An extractor over a document: the host buffer's line table and, when there
\* is a tree, the tree the parser builds for the document
Extractor(lines, pad, e) ==
  LET lengths == [i \in 1..Len(lines) |-> TextLength(lines, pad, i)]
      buffered ==
        [lines |-> lines, pad |-> pad, lineLengths |-> lengths,
         lineStarts |-> [i \in 1..(Len(lines) + 1) |-> OffsetOfLine(lengths, i)],
         host |-> e.host, hasTree |-> e.hasTree, nodeIdentity |-> e.nodeIdentity,
         hasError |-> e.hasError, tree |-> <<>>, nodes |-> {}]
      parsed == Parse(buffered)
  IN  IF e.hasTree
      THEN [buffered EXCEPT !.tree = parsed,
                            !.nodes = {parsed[id] : id \in DOMAIN parsed}]
      ELSE buffered

\* The parts of the model a specification does not exercise stay as they are
\* after construction over an empty buffer
IdleParse ==
  /\ buffer = <<>>
  /\ clock = 1
  /\ tree = NewTree(buffer, clock)
  /\ dirty = FALSE
  /\ lastParseTime = clock
  /\ pendingEdits = <<>>
  /\ received = 0
  /\ lastOp = [op |-> "create", parses |-> 1, treeEdits |-> 0, changes |-> 0,
               applied |-> <<>>, parse |-> "tree",
               outcome |-> "returned", result |-> "instance"]

IdleDedup ==
  /\ extractionResults = NoRanges
  /\ deduplicated = [called |-> FALSE, offsets |-> NoRanges]

\* The context-window extraction before any call
NoPosition == [lineNumber |-> 0, column |-> 0]

NoCall ==
  [op |-> "none", cursor |-> NoPosition, prefixLines |-> 0, suffixLines |-> 0,
   outcome |-> "none", strategy |-> "none",
   startOffset |-> 0, endOffset |-> 0, textLength |-> 0,
   startLine |-> 0, endLine |-> 0]

IdleExtractor ==
  Extractor(<<"blank">>, 0, [host |-> "monaco", hasTree |-> TRUE,
                             nodeIdentity |-> FALSE, hasError |-> FALSE])

\* getRankedContextSections before any call
NoRanked ==
  [outcome |-> "none", cursor |-> NoPosition, budgets |-> [t \in Tiers |-> 0],
   textLength |-> [t \in Tiers |-> 0], offsets |-> NoRanges, collected |-> NoRanges]

IdleCtx ==
  /\ extractor = IdleExtractor
  /\ ctxResult = NoCall
  /\ ranked = NoRanked

\* No repeated call and no helper evaluated yet
NoRepeat ==
  [cursor |-> NoPosition, prefixLines |-> 0, suffixLines |-> 0,
   firstDirty |-> FALSE, calls |-> <<>>]

NoEvaluation == [fn |-> "none"]

IdleRepeat == repeated = NoRepeat
IdleEvaluation == evaluation = NoEvaluation

\* ---------------------------------------------------------------- actions
\* ContextExtractor.create(model) resolved: the first parse gave a tree
Init ==
  /\ buffer \in BufTexts
  /\ clock = 1
  /\ tree = NewTree(buffer, clock)
  /\ dirty = FALSE
  /\ lastParseTime = clock
  /\ pendingEdits = <<>>
  /\ received = 0
  /\ lastOp = [op |-> "create", parses |-> 1, treeEdits |-> 0, changes |-> 0,
               applied |-> <<>>, parse |-> "tree",
               outcome |-> "returned", result |-> "instance"]
  /\ IdleDedup
  /\ IdleCtx
  /\ IdleRepeat
  /\ IdleEvaluation

SetInstance(r) ==
  /\ tree' = r.self.tree
  /\ dirty' = r.self.dirty
  /\ lastParseTime' = r.self.lastParseTime
  /\ pendingEdits' = r.self.pendingEdits

Tick ==
  /\ clock < MaxClock
  /\ clock' = clock + 1
  /\ UNCHANGED <<buffer, tree, dirty, lastParseTime, pendingEdits, received, lastOp>>
  /\ UNCHANGED outsideParse

\* The host applies an edit and fires its content-change event
OnModelContentChanged ==
  \E ev \in EventsOn(buffer) :
    /\ Len(ApplyEvent(buffer, ev)) <= MaxBufLen
    /\ Len(pendingEdits) + Len(ev) <= MaxQueue
    /\ buffer' = ApplyEvent(buffer, ev)
    /\ LET r == onModelContentChanged(This, ev)
       IN  /\ SetInstance(r)
           /\ received' = IF r.parses > 0 /\ ~r.threw THEN 0 ELSE received + Len(ev)
           /\ lastOp' = [op |-> "onModelContentChanged", parses |-> r.parses,
                         treeEdits |-> r.treeEdits, changes |-> Len(ev),
                         applied |-> r.applied,
                         parse |-> "none", outcome |-> "returned",
                         result |-> "void"]
    /\ UNCHANGED clock
    /\ UNCHANGED outsideParse

\* The exploration stops feeding a Tree object edits beyond MaxTreeEdits
WithinTreeEdits(outcome) ==
  outcome = "throw" /\ dirty /\ tree.kind = "tree"
    => Len(tree.edited) + Len(pendingEdits) <= MaxTreeEdits

Call(op) ==
  \E outcome \in ParseOutcomes :
    /\ WithinTreeEdits(outcome)
    /\ LET r == PublicCall(op, This, buffer, clock, outcome)
       IN  /\ SetInstance(r)
           /\ received' = IF r.parses > 0 /\ r.result # "parser-error" THEN 0 ELSE received
           /\ lastOp' = [op |-> op, parses |-> r.parses, treeEdits |-> r.treeEdits,
                         changes |-> 0, applied |-> r.applied,
                         parse |-> IF r.parses = 0 THEN "none" ELSE outcome,
                         outcome |-> IF r.threw THEN "threw" ELSE "returned",
                         result |-> r.result]
    /\ UNCHANGED <<buffer, clock>>
    /\ UNCHANGED outsideParse

ForceBuildTree == Call("forceBuildTree")
GetContextAroundCursor == Call("getContextAroundCursor")
GetGlobalDeclarations == Call("getGlobalDeclarations")
GetRelevantBlocks == Call("getRelevantBlocks")
GetRankedContextSections == Call("getRankedContextSections")

Next ==
  \/ Tick
  \/ OnModelContentChanged
  \/ ForceBuildTree
  \/ GetContextAroundCursor
  \/ GetGlobalDeclarations
  \/ GetRelevantBlocks
  \/ GetRankedContextSections

Spec == Init /\ [][Next]_vars

\* ------------------------------------------------- claims on the parse side
CallOps == ExtractionOps \cup {"forceBuildTree"}

\* A step of the content-change handler / of an extraction call or forceBuildTree
\* (Tick alone advances the clock)
HandlerStep == clock' = clock /\ lastOp'.op = "onModelContentChanged"
CallStep == clock' = clock /\ lastOp'.op \in CallOps

\* C1: after any onModelContentChanged the status reports isDirty = true; after
\* any extraction call or forceBuildTree it reports isDirty = false and
\* pendingEditsCount = 0, in every interleaving of events and calls.
C1_DirtyCleanCycle ==
  /\ lastOp.op = "onModelContentChanged" => dirty
  /\ lastOp.op \in CallOps => ~dirty /\ Len(pendingEdits) = 0

\* C7: a parse failure (the parser throws or returns no tree) is recovered
\* silently: the tree is null afterwards and no public call lets an exception
\* reach its caller.
C7_ParseFailureRecovered ==
  /\ lastOp.outcome # "threw"
  /\ lastOp.parse \in {"null", "throw"} => tree.kind = "none"

\* C8: onModelContentChanged only queues: it appends the edits of the event's
\* changes (ascending rangeOffset) and sets dirty; tree and lastParseTime stay
\* as they were and neither parser.parse nor tree.edit is called.
C8_OnChangeOnlyQueues ==
  [][HandlerStep =>
       /\ tree' = tree
       /\ lastParseTime' = lastParseTime
       /\ lastOp'.parses = 0
       /\ lastOp'.treeEdits = 0
       /\ dirty'
       /\ Len(pendingEdits') = Len(pendingEdits) + lastOp'.changes
       /\ SubSeq(pendingEdits', 1, Len(pendingEdits)) = pendingEdits
       /\ \A i \in (Len(pendingEdits) + 1)..(Len(pendingEdits') - 1) :
            pendingEdits'[i].startIndex <= pendingEdits'[i + 1].startIndex]_vars

C8_Witness ==
  /\ lastOp.op = "onModelContentChanged"
  /\ lastOp.changes = 2
  /\ tree.kind = "tree"
  /\ Len(pendingEdits) = 2

\* C9: pendingEditsCount is the number of changes received since the parser
\* last returned (or since creation).
C9_PendingCountsChanges == Len(pendingEdits) = received

C9_Witness ==
  /\ lastOp.op = "onModelContentChanged"
  /\ lastOp.changes = 1
  /\ Len(pendingEdits) = 2

\* C10: on a clean tree an extraction call or forceBuildTree calls the parser
\* not at all and leaves tree, pendingEdits and lastParseTime as they were.
C10_CleanCallsDoNotParse ==
  [][(~dirty /\ CallStep) =>
       /\ lastOp'.parses = 0
       /\ lastOp'.treeEdits = 0
       /\ tree' = tree
       /\ pendingEdits' = pendingEdits
       /\ lastParseTime' = lastParseTime]_vars

C10_Witness ==
  /\ lastOp.op \in CallOps
  /\ lastOp.parses = 0
  /\ lastOp.outcome = "returned"
  /\ tree.kind = "tree"
  /\ lastParseTime < clock

\* C11: when a call finds a tree and a non-empty queue, tree.edit receives the
\* queued edits in ascending startIndex order over the whole queue, whatever
\* events queued them, and the parser is called once, after the last edit.
C11_EditsAscendingThenReparse ==
  (lastOp.op \in CallOps /\ lastOp.treeEdits > 0) =>
    /\ \A i \in 1..(Len(lastOp.applied) - 1) : lastOp.applied[i] <= lastOp.applied[i + 1]
    /\ lastOp.parses = 1

\* ================================================================= Part 2
\* ------------------------------------------ deduplicateExtractionResults
\* Priority of a tier (higher number = higher priority), reversed
TierPriority_Reversed(tier) ==
  CASE tier = "A" -> 1 [] tier = "B" -> 2 [] tier = "C" -> 3 [] tier = "D" -> 4

\* Priority of a tier (higher number = higher priority)
TierPriority(tier) ==
  CASE tier = "A" -> 4 [] tier = "B" -> 3 [] tier = "C" -> 2 [] tier = "D" -> 1

\* An overlap test that only looks at where a starts
rangesOverlap_StartInside(a, b) ==
  a.startOffset >= b.startOffset /\ a.startOffset < b.endOffset

\* rangesOverlap(a, b)
rangesOverlap(a, b) ==
  ~(a.endOffset <= b.startOffset \/ a.startOffset >= b.endOffset)

\* Step 1: all ranges with tier, priority and original index, tiers A, B, C, D
WithPriority(offsets, tier) ==
  [i \in 1..Len(offsets) |->
     [startOffset |-> offsets[i].startOffset, endOffset |-> offsets[i].endOffset,
      tier |-> tier, priority |-> TierPriority(tier), originalIndex |-> i - 1]]

StartOffsetOf(r) == r.startOffset
DescendingPriorityOf(r) == 0 - r.priority

\* Step 2: sort by priority (highest first), then by startOffset; the sort is
\* stable, so it is the stable sort by startOffset followed by the stable
\* sort by priority.
SortByPriorityThenPosition(allRanges) ==
  SortByKey(SortByKey(allRanges, StartOffsetOf), DescendingPriorityOf)

\* Step 3 keeping of an overlapping range the part behind the ranges kept
RECURSIVE RemoveOverlapping_Trimmed(_, _)
RemoveOverlapping_Trimmed(kept, rest) ==
  IF rest = <<>> THEN kept
  ELSE LET currentRange == Head(rest)
           over == {i \in 1..Len(kept) : rangesOverlap(currentRange, kept[i])}
           behind == CHOOSE e \in {kept[i].endOffset : i \in over} :
                       \A i \in over : kept[i].endOffset <= e
       IN  RemoveOverlapping_Trimmed(
             IF over = {} THEN Append(kept, currentRange)
             ELSE IF behind < currentRange.endOffset
             THEN Append(kept, [currentRange EXCEPT !.startOffset = behind])
             ELSE kept,
             Tail(rest))

\* Step 3: keep a range when it overlaps none of the ranges kept so far
RECURSIVE RemoveOverlapping(_, _)
RemoveOverlapping(kept, rest) ==
  IF rest = <<>> THEN kept
  ELSE LET currentRange == Head(rest)
           hasOverlap == \E i \in 1..Len(kept) : rangesOverlap(currentRange, kept[i])
       IN  RemoveOverlapping(IF hasOverlap THEN kept ELSE Append(kept, currentRange),
                             Tail(rest))

\* Steps 4 to 6: the kept ranges of one tier (reconstructText sorts the group
\* in place by startOffset before the offsets are read), as offsets
GroupOffsets(deduplicatedRanges, tier) ==
  LET IsTier(r) == r.tier = tier
      group == SortByKey(SelectSeq(deduplicatedRanges, IsTier), StartOffsetOf)
  IN  [i \in 1..Len(group) |->
         [startOffset |-> group[i].startOffset, endOffset |-> group[i].endOffset]]

\* deduplicateExtractionResults(extractionResults), offsets of each tier
deduplicateExtractionResults(results) ==
  LET allRanges == WithPriority(results["A"], "A") \o WithPriority(results["B"], "B")
                     \o WithPriority(results["C"], "C") \o WithPriority(results["D"], "D")
      deduplicatedRanges == RemoveOverlapping(<<>>, SortByPriorityThenPosition(allRanges))
  IN  [t \in Tiers |-> GroupOffsets(deduplicatedRanges, t)]

\* The ranges handed in: 0 <= startOffset <= endOffset <= MaxOffset
OffsetRanges ==
  {r \in [startOffset : 0..MaxOffset, endOffset : 0..MaxOffset] :
     r.startOffset <= r.endOffset}

TotalRanges(results) ==
  Len(results["A"]) + Len(results["B"]) + Len(results["C"]) + Len(results["D"])

\* ------------------------------------------------------ actions of Part 2
InitDedup ==
  /\ extractionResults = NoRanges
  /\ deduplicated = [called |-> FALSE, offsets |-> NoRanges]
  /\ IdleParse
  /\ IdleCtx
  /\ IdleRepeat
  /\ IdleEvaluation

\* An extraction method contributes one more range to its tier
CollectRange ==
  \E t \in Tiers, r \in OffsetRanges :
    /\ ~deduplicated.called
    /\ TotalRanges(extractionResults) < MaxRanges
    /\ extractionResults' = [extractionResults EXCEPT ![t] = Append(@, r)]
    /\ UNCHANGED deduplicated
    /\ UNCHANGED outsideDedup

\* deduplicateExtractionResults is applied to what was collected
DeduplicateExtractionResults ==
  /\ ~deduplicated.called
  /\ deduplicated' = [called |-> TRUE,
                      offsets |-> deduplicateExtractionResults(extractionResults)]
  /\ UNCHANGED extractionResults
  /\ UNCHANGED outsideDedup

NextDedup ==
  \/ CollectRange
  \/ DeduplicateExtractionResults

SpecDedup == InitDedup /\ [][NextDedup]_vars

\* ------------------------------------------------ claims on deduplication
Done == deduplicated.called

\* All output ranges as a set of [tier, i] positions
OutputPositions == {p \in Tiers \X (1..MaxRanges) : p[2] <= Len(deduplicated.offsets[p[1]])}
InputPositions == {p \in Tiers \X (1..MaxRanges) : p[2] <= Len(extractionResults[p[1]])}
OutputAt(p) == deduplicated.offsets[p[1]][p[2]]
InputAt(p) == extractionResults[p[1]][p[2]]

\* One range ends at or before the other starts
Disjoint(a, b) == a.endOffset <= b.startOffset \/ b.endOffset <= a.startOffset

\* C2: the ranges in the output of deduplicateExtractionResults are pairwise
\* disjoint, across all four tiers: of any two of them one ends at or before
\* the other starts.
C2_OutputPairwiseDisjoint ==
  Done => \A p, q \in OutputPositions : p # q => Disjoint(OutputAt(p), OutputAt(q))

C2_Witness ==
  /\ Done
  /\ Cardinality(OutputPositions) = 2
  /\ Cardinality(InputPositions) = 3
  /\ \E p, q \in InputPositions : p[1] # q[1] /\ ~Disjoint(InputAt(p), InputAt(q))

\* Tier t has priority over tier u: A over B over C over D
Outranks(t, u) ==
  <<t, u>> \in {<<"A", "B">>, <<"A", "C">>, <<"A", "D">>,
                <<"B", "C">>, <<"B", "D">>, <<"C", "D">>}

\* r is one of the output ranges of tier t
InOutput(t, r) == \E i \in 1..Len(deduplicated.offsets[t]) : deduplicated.offsets[t][i] = r

\* C3 as stated: whenever two input ranges of different tiers overlap, the
\* output holds the higher-priority one and not the lower-priority one.
C3_HigherPriorityWins ==
  Done =>
    \A h, l \in InputPositions :
      (Outranks(h[1], l[1]) /\ ~Disjoint(InputAt(h), InputAt(l)))
        => InOutput(h[1], InputAt(h)) /\ ~InOutput(l[1], InputAt(l))

\* C3 amended: whenever two input ranges of different tiers overlap, either
\* the output holds the higher-priority one and not the lower-priority one, or
\* the higher-priority one was itself dropped because it overlaps an output
\* range of its own or of a higher tier.
C3_HigherPriorityWinsUnlessDropped ==
  Done =>
    \A h, l \in InputPositions :
      (Outranks(h[1], l[1]) /\ ~Disjoint(InputAt(h), InputAt(l)))
        => \/ InOutput(h[1], InputAt(h)) /\ ~InOutput(l[1], InputAt(l))
           \/ /\ ~InOutput(h[1], InputAt(h))
              /\ \E k \in OutputPositions :
                   /\ (k[1] = h[1] \/ Outranks(k[1], h[1]))
                   /\ ~Disjoint(OutputAt(k), InputAt(h))

\* a lower-priority range survives next to a dropped higher-priority one
C3_Witness ==
  /\ Done
  /\ \E h, l \in InputPositions :
       /\ Outranks(h[1], l[1])
       /\ ~Disjoint(InputAt(h), InputAt(l))
       /\ ~InOutput(h[1], InputAt(h))
       /\ InOutput(l[1], InputAt(l))
  /\ \E h, l \in InputPositions :
       /\ Outranks(h[1], l[1])
       /\ ~Disjoint(InputAt(h), InputAt(l))
       /\ InOutput(h[1], InputAt(h))
       /\ ~InOutput(l[1], InputAt(l))

\* p comes before q in the order of step 2: higher tier first, then lower
\* startOffset, then (the sort being stable) position in the tier's input
Before(p, q) ==
  \/ Outranks(p[1], q[1])
  \/ /\ p[1] = q[1]
     /\ \/ InputAt(p).startOffset < InputAt(q).startOffset
        \/ InputAt(p).startOffset = InputAt(q).startOffset /\ p[2] < q[2]

\* K holds exactly the input ranges that overlap no range of K before them
AcceptedInOrder(K) ==
  \A p \in InputPositions :
    p \in K <=> ~\E q \in K : Before(q, p) /\ ~Disjoint(InputAt(p), InputAt(q))

\* The output of every tier holds the ranges of K of that tier, each as
\* often as K has it, offsets unchanged
OutputIs(K) ==
  \A t \in Tiers, r \in OffsetRanges :
    Cardinality({i \in 1..Len(deduplicated.offsets[t]) : deduplicated.offsets[t][i] = r})
      = Cardinality({p \in K : p[1] = t /\ InputAt(p) = r})

FunctionLikeTypes ==
  {"function_declaration", "function_expression", "arrow_function",
   "method_definition", "generator_function", "class_method", "function"}

isFunctionLike(n) == n.type \in FunctionLikeTypes

WholeBlockTypes ==
  {"function_declaration", "function_expression", "arrow_function",
   "method_definition", "generator_function", "class_declaration",
   "lexical_declaration", "variable_declaration", "expression_statement",
   "if_statement", "for_statement", "for_in_statement", "for_of_statement",
   "while_statement", "do_statement", "try_statement", "switch_statement"}

isWholeBlockCandidate(n) == n.type \in WholeBlockTypes

\* The node types isCursorAtTopLevel and getCurrentEnclosingBlock stop at
EnclosingBlockTypes ==
  FunctionLikeTypes \cup
  {"class_declaration", "statement_block", "block_statement", "function_body",
   "if_statement", "for_statement", "for_in_statement", "for_of_statement",
   "while_statement", "do_statement", "try_statement", "catch_clause",
   "finally_clause", "switch_statement"}

\* wrapFunctionIfArgument(funcNode)
RECURSIVE WrapWalk(_, _, _)
WrapWalk(x, funcNode, p) ==
  IF p.type = "null" THEN funcNode
  ELSE IF p.type \in {"call_expression", "new_expression"} THEN p
  ELSE WrapWalk(x, funcNode, parent(x, p))

wrapFunctionIfArgument(x, funcNode) == WrapWalk(x, funcNode, parent(x, funcNode))

namedChildren(x, n) ==
  {c \in Nodes(x) : c.parent = n.id}

\* wholeBlockContainer(n)
wholeBlockContainer(x, n) ==
  LET children == namedChildren(x, n)
  IN  IF isFunctionLike(n) THEN wrapFunctionIfArgument(x, n)
      ELSE IF /\ n.type = "expression_statement"
              /\ Cardinality(children) = 1
              /\ \E c \in children : c.type \in {"call_expression", "new_expression"}
      THEN CHOOSE c \in children : TRUE
      ELSE n

\* topLevelAncestor(node): the ancestor (or the node) directly under the
\* root, when `last.parent === this.tree?.rootNode` holds
RECURSIVE LastBelowRoot(_, _)
LastBelowRoot(x, cur) ==
  IF parent(x, cur).type = "null" \/ parent(x, cur).type = "program" THEN cur
  ELSE LastBelowRoot(x, parent(x, cur))

topLevelAncestor(x, node) ==
  LET last == LastBelowRoot(x, node)
  IN  IF x.nodeIdentity /\ parent(x, last).type = "program" THEN last ELSE NoNode

OrElse(n, fallback) == IF n.type = "null" THEN fallback ELSE n

\* ------------------------------------------------ nodes to full-line ranges
\* expandNodeToFullLines(node)
expandNodeToFullLines(x, node) ==
  [startOffset |-> getOffsetAt(x, node.startRow + 1, 1),
   endOffset |-> getOffsetAt(x, node.endRow + 1, lineEndColumn(x, node.endRow + 1))]

\* the earliest comment of the contiguous leading comments of startNode
RECURSIVE LeadingCommentStart(_, _)
LeadingCommentStart(x, startNode) ==
  LET p == previousNamedSibling(x, startNode)
  IN  IF p.type = "comment" /\ p.endRow + 1 = startNode.startRow
      THEN LeadingCommentStart(x, p)
      ELSE startNode

\* expandNodeToFullLinesWithLeadingComments(node)
expandNodeToFullLinesWithLeadingComments(x, node) ==
  [startOffset |-> getOffsetAt(x, LeadingCommentStart(x, node).startRow + 1, 1),
   endOffset |-> getOffsetAt(x, node.endRow + 1, lineEndColumn(x, node.endRow + 1))]

\* ------------------------------------------------------ results of a call
ThrownResult ==
  [outcome |-> "threw", strategy |-> "none",
   startOffset |-> 0, endOffset |-> 0, textLength |-> 0]

\* extractLinesRange(startLine, endLine, strategy)
extractLinesRange(x, startLine, endLine, strategy) ==
  With(lineEndColumn(x, endLine), LAMBDA endColumn :
    IF endColumn = Thrown THEN ThrownResult
    ELSE [outcome |-> "returned", strategy |-> strategy,
          startOffset |-> getOffsetAt(x, startLine, 1),
          endOffset |-> getOffsetAt(x, endLine, endColumn),
          textLength |-> ValueLengthInRange(x, startLine, 1, endLine, endColumn)])

\* rawLinesAround(cursor, beforeLines, afterLines)
rawLinesAround(x, cursor, beforeLines, afterLines) ==
  LET startLine == Max(1, cursor.lineNumber - beforeLines)
      endLine == Min(LineCount(x), cursor.lineNumber + afterLines)
  IN  extractLinesRange(x, startLine, endLine, "fallback-lines")

\* ------------------------------------------------- expandWithSyntaxSanity
\* The walk from the node at the start line up to the root: the first line of
\* the first whole-block candidate that the start line cuts into
RECURSIVE CutIntoStart(_, _, _)
CutIntoStart(x, current, adjustedStart) ==
  IF current.type = "null" \/ IsRootNode(x, current) THEN adjustedStart
  ELSE IF /\ isWholeBlockCandidate(current)
          /\ adjustedStart > current.startRow + 1
          /\ adjustedStart <= current.endRow + 1
  THEN current.startRow + 1
  ELSE CutIntoStart(x, parent(x, current), adjustedStart)

RECURSIVE CutIntoEnd(_, _, _)
CutIntoEnd(x, current, adjustedEnd) ==
  IF current.type = "null" \/ IsRootNode(x, current) THEN adjustedEnd
  ELSE IF /\ isWholeBlockCandidate(current)
          /\ adjustedEnd >= current.startRow + 1
          /\ adjustedEnd < current.endRow + 1
  THEN current.endRow + 1
  ELSE CutIntoEnd(x, parent(x, current), adjustedEnd)

\* expandWithSyntaxSanity(startLine, endLine)
expandWithSyntaxSanity(x, startLine, endLine) ==
  IF ~x.hasTree THEN [startLine |-> startLine, endLine |-> endLine]
  ELSE LET totalLines == LineCount(x)
           adjustedStart == Max(1, startLine)
           adjustedEnd == Min(totalLines, endLine)
           startNode == descendantForPosition(x, [row |-> adjustedStart - 1, column |-> 0])
           endNode == descendantForPosition(x, [row |-> adjustedEnd - 1, column |-> 0])
       IN  [startLine |-> Max(1, CutIntoStart(x, startNode, adjustedStart)),
            endLine |-> Min(totalLines, CutIntoEnd(x, endNode, adjustedEnd))]

\* --------------------------------------------------- the cursor's position
RECURSIVE InsideBlock(_, _)
InsideBlock(x, current) ==
  IF current.type = "null" \/ IsRootNode(x, current) THEN NoNode
  ELSE IF current.type \in EnclosingBlockTypes THEN current
  ELSE InsideBlock(x, parent(x, current))

nodeAt(x, cursor) ==
  descendantForPosition(x, [row |-> cursor.lineNumber - 1, column |-> cursor.column - 1])

\* getCurrentEnclosingBlock(cursor)
getCurrentEnclosingBlock(x, cursor) ==
  IF ~x.hasTree THEN NoNode ELSE InsideBlock(x, nodeAt(x, cursor))

\* isCursorAtTopLevel(cursor)
isCursorAtTopLevel(x, cursor) ==
  IF ~x.hasTree THEN TRUE ELSE InsideBlock(x, nodeAt(x, cursor)).type = "null"

\* ------------------------------------------------- hybridUnfinishedAround
\* The lines on which a statement of the program starts, in file order
TopLevelLines(x) ==
  LET IsTop(i) == StatementId(i) \in DOMAIN x.tree
                    /\ x.tree[StatementId(i)].parent = RootId
  IN  SelectSeq([i \in 1..LineCount(x) |-> i], IsTop)

\* collectWholeBlocksIntersectingWindow(startLine, endLine), as ranges
collectWholeBlocksIntersectingWindow(x, startLine, endLine) ==
  IF ~x.hasTree THEN <<>>
  ELSE LET Intersects(i) ==
             LET child == x.tree[StatementId(i)]
             IN  /\ isWholeBlockCandidate(child)
                 /\ ~(child.endRow + 1 < startLine \/ child.startRow + 1 > endLine)
           picked == SelectSeq(TopLevelLines(x), Intersects)
       IN  SortByKey([k \in 1..Len(picked) |->
                        expandNodeToFullLinesWithLeadingComments(
                          x, wholeBlockContainer(x, x.tree[StatementId(picked[k])]))],
                     StartOffsetOf)

\* mergeRanges(ranges)
RECURSIVE MergeSorted(_, _)
MergeSorted(out, sorted) ==
  IF sorted = <<>> THEN out
  ELSE LET r == Head(sorted)
       IN  IF out = <<>> \/ r.startOffset >= out[Len(out)].endOffset
           THEN MergeSorted(Append(out, r), Tail(sorted))
           ELSE MergeSorted(
                  [out EXCEPT ![Len(out)].endOffset = Max(@, r.endOffset)],
                  Tail(sorted))

mergeRanges(ranges) == MergeSorted(<<>>, SortByKey(ranges, StartOffsetOf))

\* the unfinished container: the first function-like or whole-block ancestor
RECURSIVE FindContainer(_, _)
FindContainer(x, cur) ==
  IF cur.type = "null" THEN NoNode
  ELSE IF isFunctionLike(cur) THEN wrapFunctionIfArgument(x, cur)
  ELSE IF isWholeBlockCandidate(cur) THEN wholeBlockContainer(x, cur)
  ELSE FindContainer(x, parent(x, cur))

WholeRangeOrNone(x, n) ==
  IF n.type = "null" THEN <<>>
  ELSE <<expandNodeToFullLinesWithLeadingComments(x, n)>>

\* hybridUnfinishedAround(cursor, beforeLines, afterLines)
hybridUnfinishedAround(x, cursor, beforeLines, afterLines) ==
  LET total == LineCount(x)
      startLine == Max(1, cursor.lineNumber - beforeLines)
      endLine == Min(total, cursor.lineNumber + afterLines)
      UnfinishedRange(container) ==
        [startOffset |->
           expandNodeToFullLinesWithLeadingComments(x, container).startOffset,
         endOffset |->
           getOffsetAt(x, cursor.lineNumber, lineEndColumn(x, cursor.lineNumber))]
      NeighborRanges(top) ==
        WholeRangeOrNone(x, previousNamedSibling(x, top))
          \o WholeRangeOrNone(x, nextNamedSibling(x, top))
      windowBlocks == collectWholeBlocksIntersectingWindow(x, startLine, endLine)
      Text(startOffset, endOffset, endLineNumber) ==
        [outcome |-> "returned", strategy |-> "fallback-lines",
         startOffset |-> startOffset, endOffset |-> endOffset,
         textLength |->
           ValueLengthInRange(x, getPositionAt(x, startOffset).lineNumber, 1,
                              endLineNumber, lineEndColumn(x, endLineNumber))]
      Merged(merged) ==
        With(merged[Len(merged)].endOffset, LAMBDA endOffset :
          With(getPositionAt(x, endOffset).lineNumber, LAMBDA endLineNumber :
            Text(merged[1].startOffset, endOffset, endLineNumber)))
  IN  With(IF x.hasTree THEN FindContainer(x, nodeAt(x, cursor)) ELSE NoNode,
           LAMBDA container :
        IF container.type = "null"
        THEN rawLinesAround(x, cursor, beforeLines, afterLines)
        ELSE IF lineEndColumn(x, cursor.lineNumber) = Thrown THEN ThrownResult
        ELSE With(OrElse(topLevelAncestor(x, container), container), LAMBDA top :
               With(mergeRanges(<<UnfinishedRange(container)>> \o NeighborRanges(top)
                                  \o windowBlocks),
                    Merged)))

\* ------------------------------------------------- getContextAroundCursor
\* Case (b): the enclosing block with prefix and suffix lines around its
\* topmost parent
EnclosingBlockWithContext(x, enclosingBlock, prefixLines, suffixLines) ==
  LET topmostParent == OrElse(topLevelAncestor(x, enclosingBlock), enclosingBlock)
      blockRange == expandNodeToFullLinesWithLeadingComments(x, enclosingBlock)
      parentRange == expandNodeToFullLines(x, topmostParent)
      parentStartLine == getPositionAt(x, parentRange.startOffset).lineNumber
      parentEndLine == getPositionAt(x, parentRange.endOffset).lineNumber
      prefixStart ==
        expandWithSyntaxSanity(x, parentStartLine - prefixLines, parentStartLine - 1).startLine
      suffixEnd ==
        expandWithSyntaxSanity(x, parentEndLine + 1, parentEndLine + suffixLines).endLine
      finalStartLine ==
        Min(prefixStart, getPositionAt(x, blockRange.startOffset).lineNumber)
      finalEndLine ==
        Max(suffixEnd, getPositionAt(x, blockRange.endOffset).lineNumber)
  IN  extractLinesRange(x, finalStartLine, finalEndLine, "enclosing-block-with-context")

\* The window around the cursor line, made syntax-sane
WindowWithSyntaxSanity(x, cursor, prefixLines, suffixLines, strategy) ==
  With(expandWithSyntaxSanity(x, cursor.lineNumber - prefixLines,
                              cursor.lineNumber + suffixLines),
       LAMBDA w : extractLinesRange(x, w.startLine, w.endLine, strategy))

\* nodeOrAncestorsHaveError(n): hasError of a node tells of an error anywhere
\* below it, and the walk ends at the root
nodeOrAncestorsHaveError(x, n) == x.hasError

\* The "{" not closed by a "}" in lines from..to, counted as the code counts
\* them (a "}" with nothing open is skipped)
RECURSIVE OpenBraces(_, _, _)
OpenBraces(x, from, to) ==
  IF from > to THEN 0
  ELSE LET before == OpenBraces(x, from, to - 1)
       IN  IF x.lines[to] \in OpeningKinds THEN before + 1
           ELSE IF x.lines[to] = "close" THEN Max(0, before - 1)
           ELSE before

\* isLikelyUnfinishedNearCursor(cursor), when getLineContent answers: the
\* parentheses of every line are balanced, and the pattern matches the
\* keyword of a function line
isLikelyUnfinishedNearCursor(x, cursor) ==
  LET from == Max(1, cursor.lineNumber - 2)
      to == Min(LineCount(x), cursor.lineNumber + 30)
  IN  OpenBraces(x, from, to) > 0 \/ x.lines[cursor.lineNumber] = "fn"

\* getContextAroundCursor(cursor, opts) once the tree is up to date
getContextAroundCursor(x, cursor, prefixLines, suffixLines) ==
  IF ~x.hasTree
  THEN WindowWithSyntaxSanity(x, cursor, prefixLines, suffixLines, "fallback-lines")
  ELSE IF nodeOrAncestorsHaveError(x, nodeAt(x, cursor))
  THEN hybridUnfinishedAround(x, cursor, prefixLines, suffixLines)
  ELSE IF getLineContentThrows(x, cursor.lineNumber)
  THEN ThrownResult
  ELSE IF isLikelyUnfinishedNearCursor(x, cursor)
  THEN hybridUnfinishedAround(x, cursor, prefixLines, suffixLines)
  ELSE IF isCursorAtTopLevel(x, cursor)
  THEN WindowWithSyntaxSanity(x, cursor, prefixLines, suffixLines,
                              "top-level-with-syntax-sanity")
  ELSE LET enclosingBlock == getCurrentEnclosingBlock(x, cursor)
       IN  IF enclosingBlock.type # "null"
           THEN EnclosingBlockWithContext(x, enclosingBlock, prefixLines, suffixLines)
           ELSE WindowWithSyntaxSanity(x, cursor, prefixLines, suffixLines,
                                       "fallback-lines")

\* ------------------------------------------------------ actions of Part 3
\* The extractors explored: a well-formed document in a host, with or without
\* a tree. hasError: one of the statements has a syntax error that the parser
\* recovers from inside the statement (the shape of the tree is the same).
Settings ==
  {e \in [host : HostKinds, hasTree : BOOLEAN, nodeIdentity : BOOLEAN,
          hasError : BOOLEAN] :
     (e.nodeIdentity \/ e.hasError) => e.hasTree}

Environments ==
  {Extractor(lines, 0, e) : lines \in Documents, e \in Settings}
    \ {x \in {Extractor(lines, 0, e) : lines \in Documents, e \in Settings} :
         x.hasError /\ \A i \in 1..Len(x.lines) : x.lines[i] # "stmt"}

InitCtx ==
  /\ extractor \in Environments
  /\ ctxResult = NoCall
  /\ ranked = NoRanked
  /\ IdleParse
  /\ IdleDedup
  /\ IdleRepeat
  /\ IdleEvaluation

\* The cursors explored: the first and the last column of every line, and
\* the lines just outside the buffer
CursorPositions(x) ==
  UNION {{[lineNumber |-> l, column |-> c] :
            c \in {1, IF InBuffer(x, l) THEN LineLength(x, l) + 1 ELSE 1}} :
         l \in 0..(LineCount(x) + 1)}

\* One call of getContextAroundCursor(cursor, {numberOfPrefixLines, numberOfSuffixLines})
ExtractContextAroundCursor ==
  /\ ctxResult.op = "none"
  /\ \E cursor \in CursorPositions(extractor), p \in 0..MaxWindow, s \in 0..MaxWindow :
    /\ \E r \in {getContextAroundCursor(extractor, cursor, p, s)} :
           ctxResult' =
             [op |-> "getContextAroundCursor", cursor |-> cursor,
              prefixLines |-> p, suffixLines |-> s,
              outcome |-> r.outcome, strategy |-> r.strategy,
              startOffset |-> r.startOffset, endOffset |-> r.endOffset,
              textLength |-> r.textLength, startLine |-> 0, endLine |-> 0]
    /\ UNCHANGED <<extractor, ranked>>
    /\ UNCHANGED outsideCtx

\* One call of expandWithSyntaxSanity(startLine, endLine) on a window of the
\* buffer
ExpandWindow ==
  /\ ctxResult.op = "none"
  /\ \E a \in 1..LineCount(extractor), b \in 1..LineCount(extractor) :
    /\ a <= b
    /\ \E w \in {expandWithSyntaxSanity(extractor, a, b)} :
           ctxResult' =
             [op |-> "expandWithSyntaxSanity",
              cursor |-> NoPosition, prefixLines |-> a, suffixLines |-> b,
              outcome |-> "returned", strategy |-> "none",
              startOffset |-> LineStart(extractor, w.startLine),
              endOffset |-> LineEnd(extractor, w.endLine),
              textLength |-> LineEnd(extractor, w.endLine)
                               - LineStart(extractor, w.startLine),
              startLine |-> w.startLine, endLine |-> w.endLine]
    /\ UNCHANGED <<extractor, ranked>>
    /\ UNCHANGED outsideCtx

NextCtx ==
  \/ ExtractContextAroundCursor
  \/ ExpandWindow

SpecCtx == InitCtx /\ [][NextCtx]_vars

\* --------------------------------------------- claims on the context window
NodeStartOffset(x, n) == LineStart(x, n.startRow + 1) + n.startColumn
NodeEndOffset(x, n) == LineStart(x, n.endRow + 1) + n.endColumn

\* The range [s, e] holds a part of the node, a part of the node lies
\* outside it, and the node does not hold the whole range
SplitsNode(x, n, s, e) ==
  /\ NodeStartOffset(x, n) < e /\ s < NodeEndOffset(x, n)
  /\ ~(s <= NodeStartOffset(x, n) /\ NodeEndOffset(x, n) <= e)
  /\ ~(NodeStartOffset(x, n) <= s /\ e <= NodeEndOffset(x, n))

\* C5: no whole-block candidate of the tree, at any nesting depth, is split
\* by the range getContextAroundCursor returns or by the window
\* expandWithSyntaxSanity returns: a candidate that intersects the range lies
\* entirely inside it.
C5_NoCandidateSplit ==
  (ctxResult.outcome = "returned" /\ extractor.hasTree) =>
    \A n \in Nodes(extractor) :
      isWholeBlockCandidate(n) =>
        ~SplitsNode(extractor, n, ctxResult.startOffset, ctxResult.endOffset)

\* C6: a range returned by getContextAroundCursor starts at the offset of
\* column 1 of a line of the buffer and ends at the offset of the last column
\* of a line of the buffer, wherever the cursor is and whether or not there
\* is a tree.
C6_WholeLines ==
  (ctxResult.op = "getContextAroundCursor" /\ ctxResult.outcome = "returned") =>
    \E a \in 1..LineCount(extractor), b \in 1..LineCount(extractor) :
      /\ a <= b
      /\ ctxResult.startOffset = LineStart(extractor, a)
      /\ ctxResult.endOffset = LineEnd(extractor, b)

\* The top-level function declarations of a document, as pairs of their first
\* and last line
TopLevelFunctions(x) ==
  {<<i, CloseOf(x.lines, i)>> :
     i \in {j \in 1..LineCount(x) : x.lines[j] = "fn" /\ DepthAfter(x.lines, j - 1) = 0}}

\* C13: with the cursor on any line of a top-level function declaration of a
\* document that parses without error, getContextAroundCursor returns a range
\* holding every line of the function in full, with strategy
\* "enclosing-block-with-context".
C13_WholeFunctionAroundCursor ==
  (ctxResult.op = "getContextAroundCursor" /\ extractor.hasTree /\ ~extractor.hasError) =>
    \A f \in TopLevelFunctions(extractor) :
      (f[1] <= ctxResult.cursor.lineNumber /\ ctxResult.cursor.lineNumber <= f[2]) =>
        /\ ctxResult.outcome = "returned"
        /\ ctxResult.strategy = "enclosing-block-with-context"
        /\ ctxResult.startOffset <= LineStart(extractor, f[1])
        /\ LineEnd(extractor, f[2]) <= ctxResult.endOffset

\* C14: on an empty buffer getContextAroundCursor({lineNumber 1, column 1})
\* returns the text "" with strategy "fallback-lines".
C14_EmptyBufferFallback ==
  ( /\ ctxResult.op = "getContextAroundCursor"
    /\ extractor.lines = <<"blank">>
    /\ ctxResult.cursor = [lineNumber |-> 1, column |-> 1] ) =>
    /\ ctxResult.outcome = "returned"
    /\ ctxResult.textLength = 0
    /\ ctxResult.strategy = "fallback-lines"

\* ================================================================= Part 4
\* getRankedContextSections in the revision that calls the three extraction
\* methods and deduplicates their ranges. In that revision
\* getContextAroundCursor has no fallback for broken code, and
\* expandWithSyntaxSanity first looks for dangling declarations.
Undefined == 0 - 1

\* adjustStartForIncompleteDeclarations reads the line before the window
\* (and on over blank lines), adjustEndForIncompleteDeclarations the lines
\* adjustedEnd-2..adjustedEnd; a read raises an error on a host without
\* getLineContent and for a line outside the buffer. No line of a document
\* is a dangling const, let, var or function, so neither moves the window.
AdjustersThrow(x, adjustedStart, adjustedEnd) ==
  \/ adjustedStart - 1 >= 1 /\ getLineContentThrows(x, adjustedStart - 1)
  \/ adjustedEnd >= 1 /\ x.host = "testDouble"

\* expandWithSyntaxSanity(startLine, endLine) of that revision
expandWithSyntaxSanityRev2(x, startLine, endLine) ==
  IF ~x.hasTree THEN [threw |-> FALSE, startLine |-> startLine, endLine |-> endLine]
  ELSE IF AdjustersThrow(x, Max(1, startLine), Min(LineCount(x), endLine))
  THEN [threw |-> TRUE, startLine |-> startLine, endLine |-> endLine]
  ELSE With(expandWithSyntaxSanity(x, startLine, endLine), LAMBDA w :
         [threw |-> FALSE, startLine |-> w.startLine, endLine |-> w.endLine])

WindowWithSyntaxSanityRev2(x, cursor, prefixLines, suffixLines, strategy) ==
  With(expandWithSyntaxSanityRev2(x, cursor.lineNumber - prefixLines,
                                  cursor.lineNumber + suffixLines),
       LAMBDA w : IF w.threw THEN ThrownResult
                  ELSE extractLinesRange(x, w.startLine, w.endLine, strategy))

EnclosingBlockWithContextRev2(x, enclosingBlock, prefixLines, suffixLines) ==
  LET topmostParent == OrElse(topLevelAncestor(x, enclosingBlock), enclosingBlock)
      Prefix(parentStartLine) ==
        expandWithSyntaxSanityRev2(x, parentStartLine - prefixLines, parentStartLine - 1)
      Suffix(parentEndLine) ==
        expandWithSyntaxSanityRev2(x, parentEndLine + 1, parentEndLine + suffixLines)
      Extract(blockRange, prefix, suffix) ==
        IF prefix.threw \/ suffix.threw THEN ThrownResult
        ELSE extractLinesRange(
               x,
               Min(prefix.startLine, getPositionAt(x, blockRange.startOffset).lineNumber),
               Max(suffix.endLine, getPositionAt(x, blockRange.endOffset).lineNumber),
               "enclosing-block-with-context")
  IN  With(expandNodeToFullLines(x, topmostParent), LAMBDA parentRange :
        With(Prefix(getPositionAt(x, parentRange.startOffset).lineNumber), LAMBDA prefix :
          With(Suffix(getPositionAt(x, parentRange.endOffset).lineNumber), LAMBDA suffix :
            With(expandNodeToFullLinesWithLeadingComments(x, enclosingBlock),
                 LAMBDA blockRange : Extract(blockRange, prefix, suffix)))))

\* getContextAroundCursor(cursor, opts) of that revision
getContextAroundCursorRev2(x, cursor, prefixLines, suffixLines) ==
  IF ~x.hasTree
  THEN WindowWithSyntaxSanityRev2(x, cursor, prefixLines, suffixLines, "fallback-lines")
  ELSE IF isCursorAtTopLevel(x, cursor)
  THEN WindowWithSyntaxSanityRev2(x, cursor, prefixLines, suffixLines,
                                  "top-level-with-syntax-sanity")
  ELSE LET enclosingBlock == getCurrentEnclosingBlock(x, cursor)
       IN  IF enclosingBlock.type # "null"
           THEN EnclosingBlockWithContextRev2(x, enclosingBlock, prefixLines, suffixLines)
           ELSE WindowWithSyntaxSanityRev2(x, cursor, prefixLines, suffixLines,
                                           "fallback-lines")

\* ----------------------------------------------------------------- budgets
\* A tier's share of the budget as <<numerator, denominator>>
DEFAULT_TIER_PERCENTS ==
  [A |-> <<2, 5>>, B |-> <<3, 10>>, C |-> <<1, 5>>, D |-> <<1, 10>>]

\* opts.tierPercents giving every tier 33/8192 of the budget (32 characters
\* of the default 8000), and 5/2048 of it (19 characters); both fractions
\* are exact in floating point
NarrowTierPercents == [t \in Tiers |-> <<33, 8192>>]
ThinTierPercents == [t \in Tiers |-> <<5, 2048>>]

MinTotalBudget == 1000
DefaultTotalBudget == 8000
DefaultWindowLines == 5
TopK == 3

\* deriveBudgets with Math.ceil in place of Math.floor
deriveBudgets_Ceil(totalChars, perc) ==
  [t \in Tiers |-> Max(0, 0 - ((0 - totalChars * perc[t][1]) \div perc[t][2]))]

\* deriveBudgets(totalChars, perc)
deriveBudgets(totalChars, perc) ==
  [t \in Tiers |-> Max(0, (totalChars * perc[t][1]) \div perc[t][2])]

\* ------------------------------------------------------- text of ranges
RECURSIVE SumSeq(_)
SumSeq(s) == IF s = <<>> THEN 0 ELSE Head(s) + SumSeq(Tail(s))

\* Length of parts.join("\n")
JoinedLength(lengths) ==
  IF lengths = <<>> THEN 0 ELSE SumSeq(lengths) + Len(lengths) - 1

\* Length of the text of the full lines a range touches
FullLinesLength(x, r) ==
  LET endLineNumber == getPositionAt(x, r.endOffset).lineNumber
  IN  ValueLengthInRange(x, getPositionAt(x, r.startOffset).lineNumber, 1,
                         endLineNumber, lineEndColumn(x, endLineNumber))

\* Length of textFromRanges(ranges)
textFromRanges(x, ranges) ==
  LET NonEmpty(r) == ~(r.endOffset <= r.startOffset)
      parts == SelectSeq(ranges, NonEmpty)
  IN  JoinedLength([i \in 1..Len(parts) |-> FullLinesLength(x, parts[i])])

\* Length of reconstructText(ranges) inside deduplicateExtractionResults
reconstructText(x, ranges) ==
  LET sortedRanges == SortByKey(ranges, StartOffsetOf)
  IN  JoinedLength([i \in 1..Len(sortedRanges) |-> FullLinesLength(x, sortedRanges[i])])

OffsetsOf(ranges) ==
  [i \in 1..Len(ranges) |->
     [startOffset |-> ranges[i].startOffset, endOffset |-> ranges[i].endOffset]]

\* --------------------------------------------------- getGlobalDeclarations
\* collectGlobalBlockCandidates()
collectGlobalBlockCandidates(x) ==
  IF ~x.hasTree THEN <<>>
  ELSE LET IsGlobal(i) ==
             /\ isWholeBlockCandidate(x.tree[StatementId(i)])
             /\ x.tree[StatementId(i)].type \in
                  {"function_declaration", "lexical_declaration", "variable_declaration"}
           Candidate(k, container) ==
             With(expandNodeToFullLinesWithLeadingComments(x, container), LAMBDA r :
               [startOffset |-> r.startOffset, endOffset |-> r.endOffset,
                node |-> container, index |-> k])
       IN  With(SelectSeq(TopLevelLines(x), IsGlobal), LAMBDA picked :
             [k \in 1..Len(picked) |->
                With(wholeBlockContainer(x, x.tree[StatementId(picked[k])]),
                     LAMBDA container : Candidate(k, container))])

\* The budget loop of getGlobalDeclarations
RECURSIVE SelectDeclarations(_, _, _, _)
SelectDeclarations(selected, budgetUsed, rest, maxBudget) ==
  IF rest = <<>> THEN selected
  ELSE LET decl == Head(rest)
           size == decl.endOffset - decl.startOffset
       IN  IF budgetUsed + size <= maxBudget
           THEN SelectDeclarations(Append(selected, decl), budgetUsed + size,
                                   Tail(rest), maxBudget)
           ELSE SelectDeclarations(selected, budgetUsed, Tail(rest), maxBudget)

\* getGlobalDeclarations(cursor, {maxCharsBudget}). currentScope: the
\* declarations (by position in the file) whose name the scope of the cursor
\* uses; every name is used equally often, none twice.
getGlobalDeclarations(x, maxBudget, currentScope) ==
  LET InScope(d) == d.index \in currentScope
      Other(d) == d.index \notin currentScope
      Sorted(allDeclarations) ==
        SelectSeq(allDeclarations, InScope) \o SelectSeq(allDeclarations, Other)
      Selected(sortedDeclarations) ==
        SortByKey(SelectDeclarations(<<>>, 0, sortedDeclarations, maxBudget),
                  StartOffsetOf)
      Ranges(selected) ==
        [i \in 1..Len(selected) |->
           expandNodeToFullLinesWithLeadingComments(x, selected[i].node)]
      Result(ranges) ==
        [textLength |-> textFromRanges(x, ranges), offsets |-> OffsetsOf(ranges)]
  IN  With(With(With(With(collectGlobalBlockCandidates(x), Sorted), Selected),
                Ranges), Result)

\* ------------------------------------------------------- getRelevantBlocks
NoBlock == [found |-> FALSE, startOffset |-> 0, endOffset |-> 0]

BlockOf(x, node) ==
  With(expandNodeToFullLines(x, node), LAMBDA range :
    [found |-> TRUE, startOffset |-> range.startOffset, endOffset |-> range.endOffset])

RECURSIVE CurrentBlockWalk(_, _)
CurrentBlockWalk(x, current) ==
  IF current.type = "null" \/ IsRootNode(x, current) THEN NoNode
  ELSE IF isFunctionLike(current) THEN wrapFunctionIfArgument(x, current)
  ELSE IF isWholeBlockCandidate(current) THEN wholeBlockContainer(x, current)
  ELSE CurrentBlockWalk(x, parent(x, current))

\* getCurrentBlockForSimilarity(cursor)
getCurrentBlockForSimilarity(x, cursor) ==
  IF ~x.hasTree THEN NoBlock
  ELSE With(nodeAt(x, cursor), LAMBDA node :
         With(CurrentBlockWalk(x, node), LAMBDA container :
           IF container.type # "null" THEN BlockOf(x, container)
           ELSE With(topLevelAncestor(x, node), LAMBDA topLevel :
                  IF topLevel.type # "null" THEN BlockOf(x, topLevel) ELSE NoBlock)))

RECURSIVE SeqOfBlocks(_)
SeqOfBlocks(blocks) ==
  IF blocks = {} THEN <<>>
  ELSE LET b == CHOOSE c \in blocks : \A d \in blocks : c.startOffset <= d.startOffset
       IN  <<b>> \o SeqOfBlocks(blocks \ {b})

\* collectAllBlocksForSimilarity(currentBlock)
collectAllBlocksForSimilarity(x, currentBlock) ==
  IF ~x.hasTree THEN <<>>
  ELSE LET AsBlock(node) ==
             With(expandNodeToFullLines(x, node), LAMBDA range :
               [startOffset |-> range.startOffset, endOffset |-> range.endOffset,
                node |-> node])
           Kept(b) ==
             /\ ~(b.startOffset = currentBlock.startOffset
                    /\ b.endOffset = currentBlock.endOffset)
             /\ getPositionAt(x, b.endOffset).lineNumber
                  > getPositionAt(x, b.startOffset).lineNumber
           topLevel ==
             {AsBlock(container) :
                container \in {wholeBlockContainer(x, child) :
                  child \in {n \in Nodes(x) : n.parent = RootId /\ isWholeBlockCandidate(n)}}}
           nested ==
             {AsBlock(container) :
                container \in {wrapFunctionIfArgument(x, child) :
                  child \in {n \in Nodes(x) :
                               n.level >= 1 /\ n.level <= 6 /\ isFunctionLike(n)}}}
       IN  With({b \in topLevel : Kept(b)}, LAMBDA blocks :
             With({b \in nested :
                     /\ Kept(b)
                     /\ ~\E c \in blocks :
                          c.startOffset = b.startOffset /\ c.endOffset = b.endOffset},
                  LAMBDA added : With(blocks \cup added, SeqOfBlocks)))

\* The selection loop of getRelevantBlocks
RECURSIVE SelectBlocks(_, _, _, _, _)
SelectBlocks(selected, budgetUsed, rest, topK, maxBudget) ==
  IF rest = <<>> \/ Len(selected) >= topK THEN selected
  ELSE LET block == Head(rest)
           blockSize == block.endOffset - block.startOffset
       IN  IF budgetUsed + blockSize <= maxBudget
           THEN SelectBlocks(Append(selected, block), budgetUsed + blockSize,
                             Tail(rest), topK, maxBudget)
           ELSE SelectBlocks(selected, budgetUsed, Tail(rest), topK, maxBudget)

DescendingSimilarityOf(b) == 0 - b.similarity

\* The blocks another block can be compared with from this cursor
BlocksToCompare(x, cursor) ==
  With(getCurrentBlockForSimilarity(x, cursor), LAMBDA currentBlockInfo :
    IF ~currentBlockInfo.found THEN <<>>
    ELSE collectAllBlocksForSimilarity(x, currentBlockInfo))

\* getRelevantBlocks(cursor, {topK, minSimilarityThreshold, maxCharsBudget}).
\* similarity[i]: how similar the i-th block is to the current block; 0 is
\* below the threshold.
getRelevantBlocks(x, cursor, topK, maxBudget, similarity) ==
  LET Scored(allBlocks) == [i \in 1..Len(allBlocks) |->
                   [startOffset |-> allBlocks[i].startOffset,
                    endOffset |-> allBlocks[i].endOffset,
                    node |-> allBlocks[i].node, similarity |-> similarity[i]]]
      AboveThreshold(b) == b.similarity >= 1
      Ranked(scored) ==
        SortByKey(SortByKey(SelectSeq(scored, AboveThreshold), StartOffsetOf),
                  DescendingSimilarityOf)
      Selected(scoredBlocks) ==
        SortByKey(SelectBlocks(<<>>, 0, scoredBlocks, topK, maxBudget), StartOffsetOf)
      Ranges(selectedBlocks) ==
        [i \in 1..Len(selectedBlocks) |->
           expandNodeToFullLinesWithLeadingComments(x, selectedBlocks[i].node)]
      Result(ranges) ==
        [textLength |-> textFromRanges(x, ranges), offsets |-> OffsetsOf(ranges)]
  IN  With(With(With(With(With(BlocksToCompare(x, cursor), Scored), Ranked),
                     Selected), Ranges), Result)

\* ------------------------------------------------ getRankedContextSections
OrDefault(v, default) == IF v = Undefined THEN default ELSE v

\* The result of getRankedContextSections from the results of its three
\* extractions
RankedSections(x, cursor, budgets, tierA, tierB, tierC) ==
  LET rawExtractionResults ==
        [A |-> <<[startOffset |-> tierA.startOffset,
                  endOffset |-> tierA.endOffset]>>,
         B |-> tierB.offsets,
         C |-> tierC.offsets,
         D |-> <<>>]
      Sections(deduplicatedResults) ==
        [outcome |-> "returned", cursor |-> cursor, budgets |-> budgets,
         textLength |-> [t \in Tiers |-> reconstructText(x, deduplicatedResults[t])],
         offsets |-> deduplicatedResults,
         collected |-> rawExtractionResults]
  IN  IF tierA.outcome = "threw"
      THEN [NoRanked EXCEPT !.outcome = "threw", !.cursor = cursor, !.budgets = budgets]
      ELSE With(deduplicateExtractionResults(rawExtractionResults), Sections)

\* getRankedContextSections(cursor, opts)
getRankedContextSections(x, cursor, opts, currentScope, similarity) ==
  LET totalBudget == Max(MinTotalBudget, OrDefault(opts.maxCharsBudget, DefaultTotalBudget))
      percents == opts.tierPercents
  IN  With(deriveBudgets(totalBudget, percents), LAMBDA budgets :
        With(getContextAroundCursorRev2(x, cursor,
                                        OrDefault(opts.rawPrefixLines, DefaultWindowLines),
                                        OrDefault(opts.rawSuffixLines, DefaultWindowLines)),
             LAMBDA linesAroundCursorResult :
          With(getGlobalDeclarations(x, budgets["B"], currentScope),
               LAMBDA declarationsResult :
            With(getRelevantBlocks(x, cursor, TopK, budgets["C"], similarity),
                 LAMBDA relevantBlocksResult :
              RankedSections(x, cursor, budgets, linesAroundCursorResult,
                             declarationsResult, relevantBlocksResult)))))

\* ------------------------------------------------------ actions of Part 4
\* The extractors whose sections are ranked: the editor's buffer
RankedSettings == {e \in Settings : e.host = "monaco" /\ ~e.hasError}

RankedEnvironments ==
  {Extractor(lines, 0, e) : lines \in Documents, e \in RankedSettings}

\* The options explored: the default budget under three allocations, with
\* the default window or the cursor line alone
RankedOptions ==
  {[maxCharsBudget |-> Undefined, tierPercents |-> percents,
    rawPrefixLines |-> window, rawSuffixLines |-> window] :
     percents \in {DEFAULT_TIER_PERCENTS, NarrowTierPercents, ThinTierPercents},
     window \in {Undefined, 0}}

InitRanked ==
  /\ extractor \in RankedEnvironments
  /\ ctxResult = NoCall
  /\ ranked = NoRanked
  /\ IdleParse
  /\ IdleDedup
  /\ IdleRepeat
  /\ IdleEvaluation

\* One call of getRankedContextSections(cursor, opts)
RankedContextSections ==
  /\ ranked.outcome = "none"
  /\ \E cursor \in CursorPositions(extractor), opts \in RankedOptions :
       \E declarations \in {Len(collectGlobalBlockCandidates(extractor))},
          blocks \in {Len(BlocksToCompare(extractor, cursor))} :
       \E currentScope \in SUBSET (1..declarations),
          similarity \in [1..blocks -> 0..MaxSimilarity] :
         ranked' = getRankedContextSections(extractor, cursor, opts, currentScope, similarity)
  /\ UNCHANGED <<extractor, ctxResult>>
  /\ UNCHANGED outsideCtx

NextRanked == RankedContextSections

SpecRanked == InitRanked /\ [][NextRanked]_vars

\* ----------------------------------------------------- claims on the budgets
\* C4: in every result of getRankedContextSections the text of each tier is
\* at most as long as the tier's derived budget.
C4_BudgetRespected ==
  ranked.outcome = "returned" =>
    \A t \in Tiers : ranked.textLength[t] <= ranked.budgets[t]

\* ================================================================= Part 5
\* getContextAroundCursor called twice with the same cursor and options and no
\* content-change event in between. The document is the one of `extractor`;
\* the parser gives the tree of `extractor` when it returns a tree.
MaxRepeatLines == 3

RepeatEnvironments ==
  {x \in Environments : x.hasTree /\ Len(x.lines) <= MaxRepeatLines}

\* What the extraction methods see: the document with this.tree or without it
ViewOf(x, t) ==
  IF t.kind = "tree" THEN x
  ELSE Extractor(x.lines, x.pad, [host |-> x.host, hasTree |-> FALSE,
                                  nodeIdentity |-> FALSE, hasError |-> FALSE])

\* The edit queued by the content-change event that left the extractor dirty
QueuedInsert == PendingEditOf(ChangeOf(<<>>, 0, 0, <<"a">>))

ParserError ==
  [outcome |-> "parser-error", strategy |-> "none",
   startOffset |-> 0, endOffset |-> 0, textLength |-> 0]

\* The extractor is clean or dirty, with a tree or with this.tree = null
InitRepeat ==
  /\ extractor \in RepeatEnvironments
  /\ ctxResult = NoCall
  /\ ranked = NoRanked
  /\ buffer = <<>>
  /\ clock = 1
  /\ dirty \in BOOLEAN
  /\ tree \in {NoTree, NewTree(IF dirty THEN <<>> ELSE extractor.lines, clock)}
  /\ pendingEdits = IF dirty THEN <<QueuedInsert>> ELSE <<>>
  /\ lastParseTime = clock
  /\ received = 0
  /\ lastOp = [op |-> "create", parses |-> 1, treeEdits |-> 0, changes |-> 0,
               applied |-> <<>>, parse |-> "tree",
               outcome |-> "returned", result |-> "instance"]
  /\ repeated = NoRepeat
  /\ IdleDedup
  /\ IdleEvaluation

\* getContextAroundCursor(cursor, opts): ensureIncrementalParseUpToDate, then
\* the extraction on the tree the instance holds afterwards
ContextCall(cursor, p, s, outcome) ==
  \E e \in {ensureIncrementalParseUpToDate(This, extractor.lines, clock, outcome)} :
    /\ SetInstance(e)
    /\ \E r \in {IF e.threw THEN ParserError
                 ELSE getContextAroundCursor(ViewOf(extractor, e.self.tree), cursor, p, s)} :
         repeated' = [cursor |-> cursor, prefixLines |-> p, suffixLines |-> s,
                      firstDirty |-> IF repeated.calls = <<>> THEN dirty
                                     ELSE repeated.firstDirty,
                      calls |-> Append(repeated.calls, r)]
    /\ UNCHANGED <<buffer, clock, received, lastOp, evaluation>>
    /\ UNCHANGED <<dedupVars, ctxVars>>

FirstContextCall ==
  /\ repeated.calls = <<>>
  /\ \E cursor \in CursorPositions(extractor), p \in 0..MaxWindow, s \in 0..MaxWindow,
        outcome \in ParseOutcomes :
       ContextCall(cursor, p, s, outcome)

SecondContextCall ==
  /\ Len(repeated.calls) = 1
  /\ \E outcome \in ParseOutcomes :
       ContextCall(repeated.cursor, repeated.prefixLines, repeated.suffixLines, outcome)

NextRepeat ==
  \/ FirstContextCall
  \/ SecondContextCall

SpecRepeat == InitRepeat /\ [][NextRepeat]_vars

\* C12: when the first of two consecutive calls of getContextAroundCursor with
\* the same cursor and options got past the parser, the second call ends the
\* same way with the same strategy, startOffset, endOffset and text, whether
\* the first call found the extractor dirty or clean.
C12_SecondCallIdentical ==
  (Len(repeated.calls) = 2 /\ repeated.calls[1].outcome # "parser-error") =>
    repeated.calls[2] = repeated.calls[1]

\* Both calls returned a range, and the first one had to reparse
C12_Witness ==
  /\ Len(repeated.calls) = 2
  /\ repeated.firstDirty
  /\ repeated.calls[1].outcome = "returned"
  /\ repeated.calls[2].outcome = "returned"
  /\ repeated.calls[1].strategy = "enclosing-block-with-context"

\* ================================================================= Part 6
\* Helpers of the extractor applied to one input. The initial state holds the
\* input, the one action applies the helper.
Evaluate(fn, value) == [fn |-> fn, input |-> evaluation.input, value |-> value]

\* ---------------------------------- getGlobalDeclarations: priority groups
\* A file of up to MaxDeclarations global declarations. Each has a size, the
\* number of uses of its name the file holds (usageCount), and whether its
\* name is used in the top-level statement around the cursor (inStatement).
\* enclosed: the cursor has an enclosing block.
MaxDeclarations == 3
MaxDeclarationSize == 2
MaxUsage == 2
MaxCharsBudget == 4

DeclarationShapes ==
  {d \in [size : 1..MaxDeclarationSize, usageCount : 0..MaxUsage, inStatement : BOOLEAN] :
     d.inStatement => d.usageCount >= 1}

\* allDeclarations, laid out one after the other in file order
DeclarationsOf(shapes) ==
  [i \in 1..Len(shapes) |->
     [startOffset |-> SumSeq([j \in 1..(i - 1) |-> shapes[j].size]),
      endOffset |-> SumSeq([j \in 1..i |-> shapes[j].size]),
      index |-> i, usageCount |-> shapes[i].usageCount,
      inStatement |-> shapes[i].inStatement]]

DeclarationInputs(count) ==
  {[allDeclarations |-> DeclarationsOf(shapes), enclosed |-> enclosed, maxBudget |-> budget] :
     shapes \in SeqsUpTo(DeclarationShapes, count) \ {<<>>},
     enclosed \in BOOLEAN, budget \in 0..MaxCharsBudget}

\* getIdentifiersUsedInCurrentScope(cursor), as the declarations it names
getIdentifiersUsedInCurrentScope(in) ==
  {i \in 1..Len(in.allDeclarations) :
     IF in.enclosed THEN in.allDeclarations[i].inStatement
     ELSE in.allDeclarations[i].usageCount >= 1}

\* The priority a declaration gets
PriorityOf(decl, currentScopeIdentifiers) ==
  IF decl.index \in currentScopeIdentifiers THEN "current-scope"
  ELSE IF decl.usageCount >= 2 THEN "high-usage"
  ELSE "other"

DescendingUsageOf(d) == 0 - d.usageCount

\* The declarations in file order whatever their priority
sortedDeclarations_FileOrder(categorized) == SortByKey(categorized, StartOffsetOf)

\* sortedDeclarations: current-scope, then high-usage (both by usage count
\* descending, then file order), then the others in file order
sortedDeclarations(categorized) ==
  LET Current(d) == d.priority = "current-scope"
      High(d) == d.priority = "high-usage"
      Other(d) == d.priority = "other"
      ByUsage(s) == SortByKey(SortByKey(s, StartOffsetOf), DescendingUsageOf)
  IN  ByUsage(SelectSeq(categorized, Current)) \o ByUsage(SelectSeq(categorized, High))
        \o SortByKey(SelectSeq(categorized, Other), StartOffsetOf)

\* getGlobalDeclarations(cursor, {maxCharsBudget}): the declarations returned
GlobalDeclarationsByPriority(in) ==
  LET scope == getIdentifiersUsedInCurrentScope(in)
      categorized ==
        [i \in 1..Len(in.allDeclarations) |->
           [startOffset |-> in.allDeclarations[i].startOffset,
            endOffset |-> in.allDeclarations[i].endOffset,
            index |-> i, usageCount |-> in.allDeclarations[i].usageCount,
            inStatement |-> in.allDeclarations[i].inStatement,
            priority |-> PriorityOf(in.allDeclarations[i], scope)]]
  IN  SortByKey(SelectDeclarations(<<>>, 0, sortedDeclarations(categorized), in.maxBudget),
                StartOffsetOf)

InitDeclarations ==
  /\ evaluation \in {[fn |-> "none", input |-> in] : in \in DeclarationInputs(MaxDeclarations)}
  /\ IdleParse
  /\ IdleDedup
  /\ IdleCtx
  /\ IdleRepeat

GetGlobalDeclarationsByPriority ==
  /\ evaluation.fn = "none"
  /\ evaluation' = Evaluate("getGlobalDeclarations", GlobalDeclarationsByPriority(evaluation.input))
  /\ UNCHANGED <<parseVars, dedupVars, ctxVars, repeated>>

NextDeclarations == GetGlobalDeclarationsByPriority

SpecDeclarations == InitDeclarations /\ [][NextDeclarations]_vars

\* What a result holds
SizeOf(d) == d.endOffset - d.startOffset
Returned(i) == \E k \in 1..Len(evaluation.value) : evaluation.value[k].index = i
ReturnedSize(Group(_)) ==
  SumSeq([k \in 1..Len(evaluation.value) |->
            IF Group(evaluation.value[k]) THEN SizeOf(evaluation.value[k]) ELSE 0])
FileOrder ==
  \A k \in 1..(Len(evaluation.value) - 1) :
    evaluation.value[k].startOffset < evaluation.value[k + 1].startOffset

\* Every declaration of the group First the result lacks did not fit beside
\* the returned declarations of that group, as soon as the result holds a
\* declaration outside the group
OfferedFirst(First(_)) ==
  LET all == evaluation.input.allDeclarations
  IN  (\E k \in 1..Len(evaluation.value) : ~First(evaluation.value[k])) =>
        \A i \in 1..Len(all) :
          (First(all[i]) /\ ~Returned(i)) =>
            ReturnedSize(First) + SizeOf(all[i]) > evaluation.input.maxBudget

InStatement(d) == d.inStatement
InCurrentScope(d) == d.index \in getIdentifiersUsedInCurrentScope(evaluation.input)
InScopeOrHighUsage(d) == InCurrentScope(d) \/ d.usageCount >= 2

PercentDenominator == 4
MaxTotalChars == 9

TierPercents ==
  {[t \in Tiers |-> <<n[t], PercentDenominator>>] :
     n \in [Tiers -> (0 - 1)..PercentDenominator]} \cup {DEFAULT_TIER_PERCENTS}

BudgetInputs ==
  {[totalChars |-> total, perc |-> perc] :
     total \in MinTotalBudget..(MinTotalBudget + MaxTotalChars), perc \in TierPercents}

\* return { A, B, C, D, total: A + B + C + D }
BudgetsWithTotal(budgets) ==
  [A |-> budgets["A"], B |-> budgets["B"], C |-> budgets["C"], D |-> budgets["D"],
   total |-> budgets["A"] + budgets["B"] + budgets["C"] + budgets["D"]]

InitBudgets ==
  /\ evaluation \in {[fn |-> "none", input |-> in] : in \in BudgetInputs}
  /\ IdleParse
  /\ IdleDedup
  /\ IdleCtx
  /\ IdleRepeat

DeriveBudgets ==
  /\ evaluation.fn = "none"
  /\ \E b \in {deriveBudgets(evaluation.input.totalChars, evaluation.input.perc)} :
       evaluation' = Evaluate("deriveBudgets", BudgetsWithTotal(b))
  /\ UNCHANGED <<parseVars, dedupVars, ctxVars, repeated>>

NextBudgets == DeriveBudgets

SpecBudgets == InitBudgets /\ [][NextBudgets]_vars

\* v = max(0, floor(total * num / den)), for den > 0
IsClampedFloor(v, total, share) ==
  IF total * share[1] < 0 THEN v = 0
  ELSE v * share[2] <= total * share[1] /\ total * share[1] < (v + 1) * share[2]

\* The percentages sum to 1
SumToOne(perc) ==
  /\ \A t \in Tiers : perc[t][2] = perc["A"][2]
  /\ perc["A"][1] + perc["B"][1] + perc["C"][1] + perc["D"][1] = perc["A"][2]

TierSum(v) == v.A + v.B + v.C + v.D

BudgetsAsDerived ==
  LET in == evaluation.input
      v == evaluation.value
  IN  /\ IsClampedFloor(v.A, in.totalChars, in.perc["A"])
      /\ IsClampedFloor(v.B, in.totalChars, in.perc["B"])
      /\ IsClampedFloor(v.C, in.totalChars, in.perc["C"])
      /\ IsClampedFloor(v.D, in.totalChars, in.perc["D"])
      /\ v.total = TierSum(v)
      /\ (in.totalChars = 1000 /\ in.perc = DEFAULT_TIER_PERCENTS) =>
           v = [A |-> 400, B |-> 300, C |-> 200, D |-> 100, total |-> 1000]

\* C16 as stated: every tier gets max(0, floor(total x percent)), total is the
\* sum of the four, 1000 with the default percentages gives 400/300/200/100
\* and total 1000, and for any percentages summing to 1 the four budgets sum
\* to at most the total budget.
C16_SumWithinTotal ==
  evaluation.fn = "deriveBudgets" =>
    /\ BudgetsAsDerived
    /\ SumToOne(evaluation.input.perc) =>
         TierSum(evaluation.value) <= evaluation.input.totalChars

\* C16: the same, the bound on the sum for percentages none of which is
\* negative.
C16_SumWithinTotalNonNegative ==
  evaluation.fn = "deriveBudgets" =>
    /\ BudgetsAsDerived
    /\ ( /\ SumToOne(evaluation.input.perc)
         /\ \A t \in Tiers : evaluation.input.perc[t][1] >= 0 ) =>
         TierSum(evaluation.value) <= evaluation.input.totalChars

\* Percentages summing to 1 whose shares of the budget are no whole numbers
C16_Witness ==
  /\ evaluation.fn = "deriveBudgets"
  /\ SumToOne(evaluation.input.perc)
  /\ \A t \in Tiers : evaluation.input.perc[t][1] >= 0
  /\ evaluation.input.totalChars > 0
  /\ TierSum(evaluation.value) < evaluation.input.totalChars
  /\ evaluation.value.A > 0

\* ------------------------------------------- the edits queued for an event
\* One content-change event on a buffer; the inserted texts hold CR, LF and
\* CRLF line breaks.
MaxTextLen == 2

WideTexts == SeqsUpTo({"a", CR, LF}, MaxTextLen)

WideChangesOn(buf) ==
  {ChangeOf(buf, p[1], p[2], p[3]) :
     p \in {q \in (0..Len(buf)) \X (0..1) \X WideTexts :
              /\ q[1] + q[2] <= Len(buf)
              /\ ~(q[2] = 0 /\ q[3] = <<>>)}}

WideEventsOn(buf) ==
  {ev \in SeqsUpTo(WideChangesOn(buf), MaxChanges) : Len(ev) >= 1 /\ RangesDisjoint(ev)}

EditInputs(bufs) ==
  UNION {{[buf |-> buf, changes |-> ev] : ev \in WideEventsOn(buf)} : buf \in bufs}

InitEdits ==
  /\ evaluation \in {[fn |-> "none", input |-> in] : in \in EditInputs(BufTexts)}
  /\ IdleParse
  /\ IdleDedup
  /\ IdleCtx
  /\ IdleRepeat

\* onModelContentChanged(e) on a fresh instance: the queue afterwards
RecordEdits ==
  /\ evaluation.fn = "none"
  /\ \E r \in {onModelContentChanged(This, evaluation.input.changes)} :
       evaluation' = Evaluate("onModelContentChanged", r.self.pendingEdits)
  /\ UNCHANGED <<parseVars, dedupVars, ctxVars, repeated>>

NextEdits == RecordEdits

SpecEdits == InitEdits /\ [][NextEdits]_vars

\* The change behind the k-th queued edit: the one with the k-th lowest
\* rangeOffset of the event
ChangeBehind(k) ==
  LET ev == evaluation.input.changes
  IN  CHOOSE c \in {ev[i] : i \in 1..Len(ev)} :
        Cardinality({j \in 1..Len(ev) : ev[j].rangeOffset < c.rangeOffset}) = k - 1

\* Line breaks of a text: every CR, and every LF that follows no CR
IsBreak(text, i) ==
  text[i] = CR \/ (text[i] = LF /\ ~(i > 1 /\ text[i - 1] = CR))
Fragments(text) == Cardinality({i \in 1..Len(text) : IsBreak(text, i)}) + 1
LastFragmentLength(text) ==
  Len(text) - Max(0, CHOOSE i \in 0..Len(text) :
                       /\ i > 0 => text[i] \in {CR, LF}
                       /\ \A j \in (i + 1)..Len(text) : text[j] \notin {CR, LF})

\* C17: the newEndPosition of every queued edit is (start.row, start.column +
\* length of the text) for a text of one fragment, and (start.row + n - 1,
\* length of the last fragment) for a text of n > 1 fragments, the fragments
\* being those between CRLF, CR and LF line breaks.
C17_NewEndPosition ==
  evaluation.fn = "onModelContentChanged" =>
    \A k \in 1..Len(evaluation.value) :
      LET text == ChangeBehind(k).text
          e == evaluation.value[k]
      IN  e.newEndPosition =
            IF Fragments(text) = 1
            THEN [row |-> e.startPosition.row, column |-> e.startPosition.column + Len(text)]
            ELSE [row |-> e.startPosition.row + Fragments(text) - 1,
                  column |-> LastFragmentLength(text)]

\* An edit whose text holds a CRLF and one whose text is a lone CR were queued
C17_Witness ==
  /\ evaluation.fn = "onModelContentChanged"
  /\ \E k \in 1..Len(evaluation.value) : ChangeBehind(k).text = <<CR, LF>>
  /\ \E k \in 1..Len(evaluation.value) : ChangeBehind(k).text = <<CR>>

MaxItems == 3
MaxItemSize == 3
MaxTierBudget == 5

\* The walk stops at the first candidate that does not fit
RECURSIVE selectWithinBudget_StopAtFirstMiss(_, _)
selectWithinBudget_StopAtFirstMiss(items, maxChars) ==
  IF items = <<>> THEN <<>>
  ELSE LET sz == Head(items).endOffset - Head(items).startOffset
       IN  IF sz <= 0 THEN selectWithinBudget_StopAtFirstMiss(Tail(items), maxChars)
           ELSE IF sz > maxChars THEN <<>>
           ELSE <<Head(items)>> \o selectWithinBudget_StopAtFirstMiss(Tail(items), maxChars - sz)

\* The loop of selectWithinBudget from the items left and the characters used
RECURSIVE PackItems(_, _, _, _)
PackItems(out, used, items, maxChars) ==
  IF items = <<>> THEN out
  ELSE LET sz == Head(items).endOffset - Head(items).startOffset
       IN  IF sz <= 0 THEN PackItems(out, used, Tail(items), maxChars)
           ELSE IF used + sz > maxChars THEN PackItems(out, used, Tail(items), maxChars)
           ELSE PackItems(Append(out, Head(items)), used + sz, Tail(items), maxChars)

\* selectWithinBudget(items, maxChars)
selectWithinBudget(items, maxChars) == PackItems(<<>>, 0, items, maxChars)

\* The orders in which n candidates can be handed over
Orders(n) == {p \in [1..n -> 1..n] : \A i, j \in 1..n : p[i] = p[j] => i = j}

PackInputs(count) ==
  UNION {{[items |-> [k \in 1..Len(sizes) |->
                        [startOffset |-> SumSeq([j \in 1..(p[k] - 1) |-> sizes[j]]),
                         endOffset |-> SumSeq([j \in 1..p[k] |-> sizes[j]]),
                         id |-> p[k]]],
           maxChars |-> budget] :
            p \in Orders(Len(sizes)), budget \in 0..MaxTierBudget} :
         sizes \in SeqsUpTo(0..MaxItemSize, count)}

InitPack ==
  /\ evaluation \in {[fn |-> "none", input |-> in] : in \in PackInputs(MaxItems)}
  /\ IdleParse
  /\ IdleDedup
  /\ IdleCtx
  /\ IdleRepeat

SelectWithinBudget ==
  /\ evaluation.fn = "none"
  /\ \E out \in {selectWithinBudget(evaluation.input.items, evaluation.input.maxChars)} :
       evaluation' = Evaluate("selectWithinBudget", out)
  /\ UNCHANGED <<parseVars, dedupVars, ctxVars, repeated>>

NextPack == SelectWithinBudget

SpecPack == InitPack /\ [][NextPack]_vars

\* The candidates accepted, by position in the input, and what those before
\* position i take of the budget
Accepted(i) ==
  \E k \in 1..Len(evaluation.value) : evaluation.value[k].id = evaluation.input.items[i].id
UsedBefore(i) ==
  SumSeq([j \in 1..(i - 1) |->
            IF Accepted(j) THEN SizeOf(evaluation.input.items[j]) ELSE 0])

\* C19: selectWithinBudget accepts a candidate exactly when its size is
\* positive and fits what the candidates accepted before it leave of the
\* budget, whatever was skipped before; the accepted sizes sum to at most the
\* budget and the accepted candidates keep the order of the input.
C19_PacksInOrder ==
  evaluation.fn = "selectWithinBudget" =>
    LET items == evaluation.input.items
        out == evaluation.value
    IN  /\ \A i \in 1..Len(items) :
             Accepted(i) <=> ( /\ SizeOf(items[i]) > 0
                               /\ UsedBefore(i) + SizeOf(items[i]) <= evaluation.input.maxChars )
        /\ UsedBefore(Len(items) + 1) <= evaluation.input.maxChars
        /\ out = SelectSeq(items, LAMBDA it : \E k \in 1..Len(out) : out[k].id = it.id)

\* A candidate that did not fit was skipped and a later, smaller one accepted
C19_Witness ==
  /\ evaluation.fn = "selectWithinBudget"
  /\ \E i, j \in 1..Len(evaluation.input.items) :
       /\ i < j
       /\ ~Accepted(i) /\ SizeOf(evaluation.input.items[i]) > 0
       /\ Accepted(j)
       /\ SizeOf(evaluation.input.items[j]) < SizeOf(evaluation.input.items[i])

\* ================================================================= Part 7
\* ------------------------------------------- scoreCandidates: the kind signal
\* A file of up to MaxStatements top-level statements. Each has the type of
\* its node and, for an expression statement holding one call, the callee.
MaxStatements == 3

TopLevelShapes ==
  {[type |-> t, callee |-> "none"] :
     t \in {"function_declaration", "lexical_declaration", "variable_declaration",
            "if_statement"}}
    \cup {[type |-> "expression_statement", callee |-> c] : c \in {"pm.test", "g"}}

KindInputs(count) == SeqsUpTo(TopLevelShapes, count) \ {<<>>}

\* The kind collectGlobalBlockCandidates gives a candidate: let kind =
\* child.type, then "declaration" for const/let and var
KindOfGlobal(child) ==
  IF child.type \in {"lexical_declaration", "variable_declaration"}
  THEN "declaration"
  ELSE child.type

\* collectGlobalBlockCandidates(): the statement and the kind of each candidate
GlobalBlockCandidateKinds(statements) ==
  LET IsGlobal(child) ==
        /\ isWholeBlockCandidate(child)
        /\ child.type \in {"function_declaration", "lexical_declaration",
                           "variable_declaration"}
      picked == SelectSeq(statements, IsGlobal)
  IN  [k \in 1..Len(picked) |-> [statement |-> picked[k], kind |-> KindOfGlobal(picked[k])]]

\* collectOtherTestBlocks(): the statement and the kind of each candidate
collectOtherTestBlocks(statements) ==
  LET IsPmTest(st) == st.type = "expression_statement" /\ st.callee = "pm.test"
      picked == SelectSeq(statements, IsPmTest)
  IN  [k \in 1..Len(picked) |-> [statement |-> picked[k], kind |-> "pm_test"]]

\* S_kind of scoreCandidates, in tenths: the switch over c.kind, whose default
\* branch also takes a candidate without kind
KindSignal(kind) ==
  CASE kind = "function_declaration" -> 10
    [] kind = "lexical_declaration" -> 9
    [] kind = "variable_declaration" -> 8
    [] kind = "pm_test" -> 7
    [] OTHER -> 6

\* scoreCandidates(candidates, ...): the kind signal of every candidate
scoreCandidates(candidates) ==
  [k \in 1..Len(candidates) |->
     [statement |-> candidates[k].statement, kind |-> candidates[k].kind,
      S_kind |-> KindSignal(candidates[k].kind)]]

InitKind ==
  /\ evaluation \in {[fn |-> "none", input |-> in] : in \in KindInputs(MaxStatements)}
  /\ IdleParse
  /\ IdleDedup
  /\ IdleCtx
  /\ IdleRepeat

\* The candidates of both collectors, scored
ScoreCandidates ==
  /\ evaluation.fn = "none"
  /\ evaluation' =
       Evaluate("scoreCandidates",
                scoreCandidates(GlobalBlockCandidateKinds(evaluation.input)
                                  \o collectOtherTestBlocks(evaluation.input)))
  /\ UNCHANGED <<parseVars, dedupVars, ctxVars, repeated>>

NextKind == ScoreCandidates

SpecKind == InitKind /\ [][NextKind]_vars

\* The kind signal the specification gives a top-level statement, in tenths
StatedKindSignal(st) ==
  CASE st.type = "function_declaration" -> 10
    [] st.type = "lexical_declaration" -> 9
    [] st.type = "variable_declaration" -> 8
    [] st.type = "expression_statement" /\ st.callee = "pm.test" -> 7
    [] OTHER -> 6

\* C21: the kind signal of a scored candidate of the collectors is 1.0 for a
\* function declaration, 0.9 for a const/let declaration, 0.8 for a var
\* declaration, 0.7 for a pm.test call and 0.6 for any other kind.
C21_KindSignalByDeclaration ==
  evaluation.fn = "scoreCandidates" =>
    \A k \in 1..Len(evaluation.value) :
      evaluation.value[k].S_kind = StatedKindSignal(evaluation.value[k].statement)

\* ------------------------------------------ claims on the window without tree
\* C22: without a tree getContextAroundCursor with cursor line L and windows
\* p and s returns the lines max(1, L - p) to min(lineCount, L + s), whole,
\* with strategy "fallback-lines", also for L outside the buffer.
C22_NoTreeClampedWindow ==
  (ctxResult.op = "getContextAroundCursor" /\ ~extractor.hasTree) =>
    LET startLine == Max(1, ctxResult.cursor.lineNumber - ctxResult.prefixLines)
        endLine == Min(LineCount(extractor),
                       ctxResult.cursor.lineNumber + ctxResult.suffixLines)
    IN  /\ ctxResult.outcome = "returned"
        /\ ctxResult.strategy = "fallback-lines"
        /\ IF startLine <= endLine
           THEN /\ ctxResult.startOffset = LineStart(extractor, startLine)
                /\ ctxResult.endOffset = LineEnd(extractor, endLine)
                /\ ctxResult.textLength = ctxResult.endOffset - ctxResult.startOffset
           ELSE ctxResult.textLength = 0

\* ================================================================= Part 8
\* ----------------------- getRankedContextSections: one-hop dependency closure
\* A file of up to MaxGlobals global declarations laid out one after the
\* other, each on lines of its own. A declaration is a function declaration or
\* a const/let declaration, defines one name (its position in the file) and
\* uses at most one other global name (free; 0: none). tierA: the declaration
\* whose range Tier A is (0: Tier A lies behind the declarations).
MaxGlobals == 3
MaxGlobalSize == 2
MaxClosureBudget == 2

GlobalShapes(count) ==
  [type : {"function_declaration", "lexical_declaration"},
   size : 1..MaxGlobalSize, free : 0..count]

ClosureInputs(count) ==
  UNION {{[globals |-> shapes, tierA |-> a, budgets |-> [B |-> b, C |-> c]] :
            a \in 0..n, b \in 0..MaxClosureBudget, c \in 0..MaxClosureBudget,
            shapes \in {s \in [1..n -> GlobalShapes(n)] :
                          \A i \in 1..n : s[i].free # i}} :
         n \in 1..count}

\* collectGlobalBlockCandidates() over the file
GlobalsOf(in) ==
  [i \in 1..Len(in.globals) |->
     [startOffset |-> SumSeq([j \in 1..(i - 1) |-> in.globals[j].size]),
      endOffset |-> SumSeq([j \in 1..i |-> in.globals[j].size]),
      type |-> in.globals[i].type, kind |-> KindOfGlobal(in.globals[i]),
      name |-> i, free |-> in.globals[i].free]]

\* baseRange: the range of tierA
BaseRangeOf(in) ==
  IF in.tierA = 0
  THEN [startOffset |-> SumSeq([j \in 1..Len(in.globals) |-> in.globals[j].size]),
        endOffset |-> SumSeq([j \in 1..Len(in.globals) |-> in.globals[j].size]) + 1]
  ELSE [startOffset |-> GlobalsOf(in)[in.tierA].startOffset,
        endOffset |-> GlobalsOf(in)[in.tierA].endOffset]

\* overlaps(a, b)
overlaps(a, b) == ~(a.endOffset <= b.startOffset \/ a.startOffset >= b.endOffset)

\* filterNonOverlapping(items, taken)
filterNonOverlapping(items, taken) ==
  LET Free(it) == ~\E k \in 1..Len(taken) : overlaps(it, taken[k])
  IN  SelectSeq(items, Free)

\* The sequence s handed over in the order p
Reordered(s, p) == [k \in 1..Len(s) |-> s[p[k]]]

TotalSize(ranges) ==
  SumSeq([k \in 1..Len(ranges) |-> ranges[k].endOffset - ranges[k].startOffset])

KeysOf(ranges) ==
  {<<ranges[k].startOffset, ranges[k].endOffset>> : k \in 1..Len(ranges)}

\* tryAdd(dep) of expandWithDependencies, on acc = [out, budgetLeft]
tryAdd(acc, br) ==
  LET sz == br.endOffset - br.startOffset
  IN  IF <<br.startOffset, br.endOffset>> \in KeysOf(acc.out) THEN acc
      ELSE IF sz <= 0 \/ sz > acc.budgetLeft THEN acc
      ELSE [out |-> Append(acc.out, [startOffset |-> br.startOffset,
                                     endOffset |-> br.endOffset]),
            budgetLeft |-> acc.budgetLeft - sz]

\* The loop of expandWithDependencies over the picked blocks
RECURSIVE AddDependencies(_, _, _)
AddDependencies(acc, picked, globalIndex) ==
  IF picked = <<>> THEN acc.out
  ELSE LET b == Head(picked)
       IN  AddDependencies(IF b.free \in DOMAIN globalIndex
                           THEN tryAdd(acc, globalIndex[b.free]) ELSE acc,
                           Tail(picked), globalIndex)

\* The budget is not looked at
expandWithDependencies_NoBudget(picked, globalIndex, already, budgetLeft) ==
  AddDependencies([out |-> already, budgetLeft |-> TotalSize(globalIndex)],
                  picked, globalIndex)

\* expandWithDependencies(picked, globalIndex, already, budgetLeft)
expandWithDependencies(picked, globalIndex, already, budgetLeft) ==
  AddDependencies([out |-> already, budgetLeft |-> budgetLeft], picked, globalIndex)

\* Tiers B and C and the closure of getRankedContextSections. orderB, orderC:
\* the orders scoreCandidates and rankSimilarTopBlocks give the candidates.
DependencyClosure(in, orderB, orderC) ==
  LET baseRange == BaseRangeOf(in)
      globals == GlobalsOf(in)
      IsDeclaration(b) == b.kind = "declaration"
      IsHelper(b) == b.kind = "function_declaration"
      declOnly == filterNonOverlapping(SelectSeq(globals, IsDeclaration), <<baseRange>>)
      rankedB == Reordered(declOnly, orderB)
      pickedB == selectWithinBudget(filterNonOverlapping(rankedB, <<baseRange>>),
                                    in.budgets.B)
      similarAll ==
        Reordered(filterNonOverlapping(SelectSeq(globals, IsHelper),
                                       <<baseRange>> \o declOnly), orderC)
      packedC == selectWithinBudget(similarAll, in.budgets.C)
      pickedC == SubSeq(packedC, 1, Min(TopK, Len(packedC)))
      rangesBC == OffsetsOf(pickedB \o pickedC)
      bcBudgetLeft == Max(0, in.budgets.B + in.budgets.C - TotalSize(rangesBC))
      NotTierA(r) == ~overlaps(r, baseRange)
      NotPicked(r) == filterNonOverlapping(<<r>>, pickedB \o pickedC) # <<>>
      depExpanded ==
        SelectSeq(SelectSeq(expandWithDependencies(pickedB \o pickedC, globals,
                                                   rangesBC, bcBudgetLeft),
                            NotTierA), NotPicked)
  IN  [baseRange |-> baseRange, pickedB |-> pickedB, pickedC |-> pickedC,
       depExpanded |-> depExpanded]

InitClosure ==
  /\ evaluation \in {[fn |-> "none", input |-> in] : in \in ClosureInputs(MaxGlobals)}
  /\ IdleParse
  /\ IdleDedup
  /\ IdleCtx
  /\ IdleRepeat

ExpandWithDependencies ==
  /\ evaluation.fn = "none"
  /\ \E declarations \in {Len(SelectSeq(GlobalsOf(evaluation.input),
                                        LAMBDA b : b.kind = "declaration"
                                                     /\ ~overlaps(b, BaseRangeOf(evaluation.input))))},
        helpers \in {Len(SelectSeq(GlobalsOf(evaluation.input),
                                   LAMBDA b : b.kind = "function_declaration"
                                                /\ ~overlaps(b, BaseRangeOf(evaluation.input))))} :
       \E orderB \in Orders(declarations), orderC \in Orders(helpers) :
         evaluation' = Evaluate("expandWithDependencies",
                                DependencyClosure(evaluation.input, orderB, orderC))
  /\ UNCHANGED <<parseVars, dedupVars, ctxVars, repeated>>

NextClosure == ExpandWithDependencies

SpecClosure == InitClosure /\ [][NextClosure]_vars

\* What a result of the closure holds
PickedBC == evaluation.value.pickedB \o evaluation.value.pickedC
Added == evaluation.value.depExpanded
DefinitionOf(name) == GlobalsOf(evaluation.input)[name]
IsRange(r, b) == r.startOffset = b.startOffset /\ r.endOffset = b.endOffset

\* C23: every range the closure adds is the global definition of a free
\* identifier of a block picked for tier B or C, overlaps neither the Tier A
\* range nor a picked range, and the picked and the added ranges together
\* take at most budget B plus budget C.
C23_OneHopClosure ==
  evaluation.fn = "expandWithDependencies" =>
    /\ \A k \in 1..Len(Added) :
         /\ \E i \in 1..Len(PickedBC) :
              /\ PickedBC[i].free # 0
              /\ IsRange(Added[k], DefinitionOf(PickedBC[i].free))
         /\ ~overlaps(Added[k], evaluation.value.baseRange)
         /\ \A i \in 1..Len(PickedBC) : ~overlaps(Added[k], PickedBC[i])
    /\ TotalSize(PickedBC) + TotalSize(Added)
         <= evaluation.input.budgets.B + evaluation.input.budgets.C

\* A dependency was added whose own free identifier has a definition that is
\* neither picked nor added, though it lies outside Tier A and fits what is
\* left of the budget
C23_Witness ==
  /\ evaluation.fn = "expandWithDependencies"
  /\ \E k \in 1..Len(Added) : \E d \in 1..Len(evaluation.input.globals) :
       /\ IsRange(Added[k], DefinitionOf(d))
       /\ DefinitionOf(d).free # 0
       /\ LET next == DefinitionOf(DefinitionOf(d).free)
          IN  /\ ~overlaps(next, evaluation.value.baseRange)
              /\ \A i \in 1..Len(PickedBC) : ~IsRange(PickedBC[i], next)
              /\ \A j \in 1..Len(Added) : ~IsRange(Added[j], next)
              /\ TotalSize(PickedBC) + TotalSize(Added) + SizeOf(next)
                   <= evaluation.input.budgets.B + evaluation.input.budgets.C

\* ================================================================= Part 9
\* ------------------------------- getRelevantBlocks: ranking and selection
\* Up to MaxBlocks blocks laid out one after the other, each with a size and
\* its Jaccard similarity to the current block, counted in steps of 0.0005:
\* 0 is below minSimilarityThreshold, 1 is the threshold, v is the threshold
\* plus (v - 1) * 0.0005. (16/33 and 15/31 are two Jaccard values less than
\* 0.001 apart.)
MaxBlocks == 3
MaxBlockSize == 2
MaxSimilaritySteps == 4
MaxRelevantBudget == 3

\* 0.001, in steps of 0.0005
SimilarityTolerance == 2

RelevantInputs(count) ==
  {[blocks |-> shapes, topK |-> k, maxBudget |-> budget] :
     shapes \in SeqsUpTo([size : 1..MaxBlockSize, similarity : 0..MaxSimilaritySteps],
                         count) \ {<<>>},
     k \in 1..TopK, budget \in 0..MaxRelevantBudget}

\* allBlocks with the similarity computed for each
ScoredBlocksOf(in) ==
  [i \in 1..Len(in.blocks) |->
     [startOffset |-> SumSeq([j \in 1..(i - 1) |-> in.blocks[j].size]),
      endOffset |-> SumSeq([j \in 1..i |-> in.blocks[j].size]),
      similarity |-> in.blocks[i].similarity]]

\* The comparator of scoredBlocks.sort: negative when a goes before b
CompareScored(a, b) ==
  IF b.similarity - a.similarity > SimilarityTolerance
       \/ a.similarity - b.similarity > SimilarityTolerance
  THEN b.similarity - a.similarity
  ELSE a.startOffset - b.startOffset

\* The orders Array.prototype.sort can leave s in: the one order that agrees
\* with the comparator on every pair, and any order when there is none (the
\* comparator is then not a consistent one and the order is left to the engine)
SortOutcomes(s, Compare(_, _)) ==
  LET agreeing == {p \in Orders(Len(s)) :
                     \A i, j \in 1..Len(s) :
                       i < j => \/ Compare(s[p[i]], s[p[j]]) < 0
                                \/ (Compare(s[p[i]], s[p[j]]) = 0 /\ p[i] < p[j])}
  IN  IF agreeing = {} THEN Orders(Len(s)) ELSE agreeing

\* scoredBlocks.sort(...)
SortScored(s) == SortOutcomes(s, CompareScored)

\* getRelevantBlocks from the threshold filter on; order: the outcome of the sort
RelevantBlocksInOrder(in, aboveThreshold, order) ==
  SortByKey(SelectBlocks(<<>>, 0, Reordered(aboveThreshold, order), in.topK, in.maxBudget),
            StartOffsetOf)

AboveThresholdOf(in) ==
  SelectSeq(ScoredBlocksOf(in), LAMBDA b : b.similarity >= 1)

InitRelevant ==
  /\ evaluation \in {[fn |-> "none", input |-> in] : in \in RelevantInputs(MaxBlocks)}
  /\ IdleParse
  /\ IdleDedup
  /\ IdleCtx
  /\ IdleRepeat

SelectRelevantBlocks ==
  /\ evaluation.fn = "none"
  /\ \E aboveThreshold \in {AboveThresholdOf(evaluation.input)} :
       \E order \in SortScored(aboveThreshold) :
         evaluation' = Evaluate("getRelevantBlocks",
                                RelevantBlocksInOrder(evaluation.input, aboveThreshold, order))
  /\ UNCHANGED <<parseVars, dedupVars, ctxVars, repeated>>

NextRelevant == SelectRelevantBlocks

SpecRelevant == InitRelevant /\ [][NextRelevant]_vars

\* The orders of s by descending similarity
DescendingOrders(s) ==
  {p \in Orders(Len(s)) :
     \A i, j \in 1..Len(s) : i < j => s[p[i]].similarity >= s[p[j]].similarity}

\* C24: getRelevantBlocks returns, in ascending file position, the first topK
\* blocks that greedy budget packing accepts from the blocks at or above the
\* threshold taken by descending similarity.
C24_TopKByDescendingSimilarity ==
  evaluation.fn = "getRelevantBlocks" =>
    \E p \in DescendingOrders(AboveThresholdOf(evaluation.input)) :
      LET packed == selectWithinBudget(Reordered(AboveThresholdOf(evaluation.input), p),
                                       evaluation.input.maxBudget)
      IN  evaluation.value =
            SortByKey(SubSeq(packed, 1, Min(evaluation.input.topK, Len(packed))),
                      StartOffsetOf)

\* ================================================================ Part 10
\* ------------------------------- wrapFunctionIfArgument over the ancestors
\* A function node and the types of its ancestors, from its parent up to the
\* program node, at most MaxAncestors of them.
MaxAncestors == 7

\* The node types a node of type t can have as its parent
ParentTypes(t) ==
  CASE t = "function_declaration" -> {"statement_block", "program"}
    [] t \in {"function_expression", "arrow_function"} -> {"arguments", "variable_declarator"}
    [] t = "arguments" -> {"call_expression", "new_expression"}
    [] t \in {"call_expression", "new_expression"} ->
         {"expression_statement", "arguments", "variable_declarator"}
    [] t = "expression_statement" -> {"statement_block", "program"}
    [] t = "variable_declarator" -> {"lexical_declaration"}
    [] t = "lexical_declaration" -> {"statement_block", "program"}
    [] t = "statement_block" ->
         {"function_declaration", "function_expression", "arrow_function", "if_statement"}
    [] t = "if_statement" -> {"statement_block", "program"}
    [] OTHER -> {}

\* The ancestor chains of a node of type t that reach the program node within
\* n steps
RECURSIVE AncestorChains(_, _)
AncestorChains(t, n) ==
  IF t = "program" THEN {<<>>}
  ELSE IF n = 0 THEN {}
  ELSE UNION {{<<q>> \o c : c \in AncestorChains(q, n - 1)} : q \in ParentTypes(t)}

WrapInputs(depth) ==
  UNION {{[funcNode |-> t, ancestors |-> c] : c \in AncestorChains(t, depth)} :
         t \in {"function_declaration", "function_expression", "arrow_function"}}

\* The loop of wrapFunctionIfArgument from the k-th ancestor on: the ancestor
\* returned (0: funcNode itself)
RECURSIVE WrapWalkFrom(_, _)
WrapWalkFrom(ancestors, k) ==
  IF k > Len(ancestors) THEN 0
  ELSE IF ancestors[k] \in {"call_expression", "new_expression"} THEN k
  ELSE IF k = Len(ancestors) THEN 0
  ELSE WrapWalkFrom(ancestors, k + 1)

InitWrap ==
  /\ evaluation \in {[fn |-> "none", input |-> in] : in \in WrapInputs(MaxAncestors)}
  /\ IdleParse
  /\ IdleDedup
  /\ IdleCtx
  /\ IdleRepeat

WrapFunctionIfArgument ==
  /\ evaluation.fn = "none"
  /\ evaluation' = Evaluate("wrapFunctionIfArgument",
                            WrapWalkFrom(evaluation.input.ancestors, 1))
  /\ UNCHANGED <<parseVars, dedupVars, ctxVars, repeated>>

NextWrap == WrapFunctionIfArgument

SpecWrap == InitWrap /\ [][NextWrap]_vars

\* The function is an argument of a call: its parent is the arguments node
IsCallArgument(in) == in.ancestors[1] = "arguments"

\* C25: wrapFunctionIfArgument returns the call or new expression the function
\* is an argument of, and the function node itself when the function is not
\* an argument of a call.
C25_WrapsOnlyCallArguments ==
  evaluation.fn = "wrapFunctionIfArgument" =>
    IF IsCallArgument(evaluation.input) THEN evaluation.value = 2
    ELSE evaluation.value = 0

\* ================================================================ Part 11
\* ------------------------------------------------------------- cutTokenize
\* Texts of up to MaxRawLen characters over two lowercase letters, their
\* uppercase forms, the underscore and the blank.
MaxRawLen == 4

LowerLetters == {"a", "b"}
UpperLetters == {"A", "B"}
RawChars == LowerLetters \cup UpperLetters \cup {"_", " "}

\* The stopword sets cutTokenize is given
StopSets == {{}, {<<"a", "b">>}}

TokenInputs(len) ==
  {[raw |-> raw, STOP |-> stop] : raw \in SeqsUpTo(RawChars, len), stop \in StopSets}

\* c.toLowerCase()
LowerChar(c) == IF c = "A" THEN "a" ELSE IF c = "B" THEN "b" ELSE c

\* s.toLowerCase()
toLowerCase(s) == [i \in 1..Len(s) |-> LowerChar(s[i])]

\* s.replace(/([a-z0-9])([A-Z])/g, "$1 $2")
RECURSIVE SplitCaseBoundaries(_)
SplitCaseBoundaries(s) ==
  IF Len(s) <= 1 THEN s
  ELSE IF s[1] \in LowerLetters /\ s[2] \in UpperLetters
       THEN <<s[1], " ">> \o SplitCaseBoundaries(Tail(s))
       ELSE <<s[1]>> \o SplitCaseBoundaries(Tail(s))

\* s.replace(/[_\W]+/g, " ")
RECURSIVE ReplaceNonWord(_)
ReplaceNonWord(s) ==
  IF s = <<>> THEN <<>>
  ELSE IF Head(s) \in {"_", " "}
       THEN IF Len(s) >= 2 /\ s[2] \in {"_", " "}
            THEN ReplaceNonWord(Tail(s))
            ELSE <<" ">> \o ReplaceNonWord(Tail(s))
       ELSE <<Head(s)>> \o ReplaceNonWord(Tail(s))

\* s.split(/\s+/).filter(Boolean), word being the token under way
RECURSIVE SplitOnBlanks(_, _)
SplitOnBlanks(s, word) ==
  IF s = <<>> THEN (IF word = <<>> THEN <<>> ELSE <<word>>)
  ELSE IF Head(s) = " "
       THEN (IF word = <<>> THEN <<>> ELSE <<word>>) \o SplitOnBlanks(Tail(s), <<>>)
       ELSE SplitOnBlanks(Tail(s), Append(word, Head(s)))

\* splitCamelSnake(s)
splitCamelSnake(s) == SplitOnBlanks(ReplaceNonWord(SplitCaseBoundaries(s)), <<>>)

\* Deduplicate while preserving order
RECURSIVE Dedup(_, _)
Dedup(out, seen) ==
  IF out = <<>> THEN <<>>
  ELSE IF Head(out) \in seen THEN Dedup(Tail(out), seen)
  ELSE <<Head(out)>> \o Dedup(Tail(out), seen \cup {Head(out)})

\* The words kept by the loop of cutTokenize, deduplicated
KeptTokens(words, STOP) ==
  Dedup(SelectSeq(words, LAMBDA w : ~(Len(w) <= 1) /\ w \notin STOP), {})

\* cutTokenize(raw, STOP)
cutTokenize(raw, STOP) ==
  IF raw = <<>> THEN <<>>
  ELSE KeptTokens(splitCamelSnake(toLowerCase(raw)), STOP)

InitTokens ==
  /\ evaluation \in {[fn |-> "none", input |-> in] : in \in TokenInputs(MaxRawLen)}
  /\ IdleParse
  /\ IdleDedup
  /\ IdleCtx
  /\ IdleRepeat

CutTokenize ==
  /\ evaluation.fn = "none"
  /\ evaluation' = Evaluate("cutTokenize",
                            cutTokenize(evaluation.input.raw, evaluation.input.STOP))
  /\ UNCHANGED <<parseVars, dedupVars, ctxVars, repeated>>

NextTokens == CutTokenize

SpecTokens == InitTokens /\ [][NextTokens]_vars

\* The tokens of case-boundary tokenization: the text split where a lowercase
\* letter is followed by an uppercase one and at underscores and blanks, the
\* pieces lowercased
CaseBoundaryWords(raw) ==
  LET pieces == splitCamelSnake(raw)
  IN  [k \in 1..Len(pieces) |-> toLowerCase(pieces[k])]

\* C26: cutTokenize splits at case boundaries, underscores and non-word
\* characters, lowercases the tokens, drops tokens of one character and
\* stopwords, and removes duplicates keeping the first occurrence.
C26_CaseBoundaryTokens ==
  evaluation.fn = "cutTokenize" =>
    evaluation.value = KeptTokens(CaseBoundaryWords(evaluation.input.raw), evaluation.input.STOP)

\* ================================================================ Part 12
\* -------------------------- getRankedContextSections: the debug payload
\* Up to MaxCalls calls of getRankedContextSections on one extractor. A call
\* is made with opts.debug true, false or left out, and returns or raises an
\* error before Tier B (getContextAroundCursor raises it, or this.tree is
\* null). evaluation.input holds the calls made, evaluation.value what the last
\* one left: _lastDebug, the debug field of the result, and whether the
\* scored, picked and skipped lists were filled.
MaxCalls == 3

\* null, and the values of opts.debug
Null == 0

DebugOptions == {"true", "false", "undefined"}

NoCalls ==
  [fn |-> "none", input |-> <<>>,
   value |-> [lastDebug |-> Null, outcome |-> "none", debug |-> Undefined,
              listsFilled |-> FALSE]]

\* The DebugInfo object the k-th call builds, named by k
DebugInfoOf(k) == k

\* getRankedContextSections(cursor, opts) as the k-th call, after value
RankedCallWithDebug(value, k, debug, throws) ==
  IF throws
  THEN [lastDebug |-> value.lastDebug, outcome |-> "threw", debug |-> Undefined,
        listsFilled |-> FALSE]
  ELSE [lastDebug |-> IF debug = "true" THEN DebugInfoOf(k) ELSE Null,
        outcome |-> "returned",
        debug |-> IF debug = "true" THEN DebugInfoOf(k) ELSE Undefined,
        listsFilled |-> TRUE]

\* getLastDebug()
getLastDebug == evaluation.value.lastDebug

InitDebug ==
  /\ evaluation = NoCalls
  /\ IdleParse
  /\ IdleDedup
  /\ IdleCtx
  /\ IdleRepeat

RankedCall ==
  /\ Len(evaluation.input) < MaxCalls
  /\ \E debug \in DebugOptions, throws \in BOOLEAN :
       evaluation' =
         [fn |-> "getRankedContextSections",
          input |-> Append(evaluation.input, [debug |-> debug, throws |-> throws]),
          value |-> RankedCallWithDebug(evaluation.value, Len(evaluation.input) + 1,
                                        debug, throws)]
  /\ UNCHANGED <<parseVars, dedupVars, ctxVars, repeated>>

NextDebug == RankedCall

SpecDebug == InitDebug /\ [][NextDebug]_vars

LastCall == evaluation.input[Len(evaluation.input)]

\* C27: a call without opts.debug = true fills no scored, picked or skipped
\* list and returns no debug field, and getLastDebug() gives the payload of
\* the most recent call when that call had debug = true and null otherwise.
C27_DebugOnlyOnRequest ==
  evaluation.fn = "getRankedContextSections" =>
    /\ LastCall.debug # "true" =>
         /\ ~evaluation.value.listsFilled
         /\ evaluation.value.debug = Undefined
    /\ (LastCall.debug = "true" /\ ~LastCall.throws) =>
         getLastDebug = DebugInfoOf(Len(evaluation.input))
    /\ LastCall.debug # "true" => getLastDebug = Null

MaxCallers == 3

Callers == 1..MaxCallers

ModuleLoaded ==
  [fn |-> "ensureParser", parserSingleton |-> 0, initialized |-> FALSE,
   pc |-> [c \in Callers |-> "idle"], initCalls |-> 0, parsersCreated |-> 0,
   returned |-> [c \in Callers |-> 0]]

InitParser ==
  /\ evaluation = ModuleLoaded
  /\ IdleParse
  /\ IdleDedup
  /\ IdleCtx
  /\ IdleRepeat

\* ensureParser() from its first line to its first await or return
EnterEnsureParser(c) ==
  /\ evaluation.fn = "ensureParser"
  /\ evaluation.pc[c] = "idle"
  /\ evaluation' =
       IF evaluation.parserSingleton # 0
       THEN [evaluation EXCEPT !.pc[c] = "done",
                               !.returned[c] = evaluation.parserSingleton]
       ELSE IF ~evaluation.initialized
       THEN [evaluation EXCEPT !.pc[c] = "awaitInit",
                               !.initCalls = evaluation.initCalls + 1]
       ELSE [evaluation EXCEPT !.pc[c] = "awaitLoad"]
  /\ UNCHANGED <<parseVars, dedupVars, ctxVars, repeated>>

\* From the end of await TreeSitter.Parser.init(...) to await Language.load(...)
AfterParserInit(c) ==
  /\ evaluation.fn = "ensureParser"
  /\ evaluation.pc[c] = "awaitInit"
  /\ evaluation' = [evaluation EXCEPT !.initialized = TRUE, !.pc[c] = "awaitLoad"]
  /\ UNCHANGED <<parseVars, dedupVars, ctxVars, repeated>>

\* From the end of await Language.load(...) to the return
AfterLanguageLoad(c) ==
  /\ evaluation.fn = "ensureParser"
  /\ evaluation.pc[c] = "awaitLoad"
  /\ \E parser \in {evaluation.parsersCreated + 1} :
       evaluation' = [evaluation EXCEPT !.parsersCreated = parser,
                                        !.parserSingleton = parser,
                                        !.pc[c] = "done",
                                        !.returned[c] = parser]
  /\ UNCHANGED <<parseVars, dedupVars, ctxVars, repeated>>

NextParser ==
  \/ \E c \in Callers : EnterEnsureParser(c)
  \/ \E c \in Callers : AfterParserInit(c)
  \/ \E c \in Callers : AfterLanguageLoad(c)

SpecParser == InitParser /\ [][NextParser]_vars

\* C29: however the ensureParser calls interleave, the runtime is initialized
\* at most once, one parser object is made, and every call receives that
\* parser.
C29_SingletonUnderConcurrency ==
  evaluation.fn = "ensureParser" =>
    /\ evaluation.initCalls <= 1
    /\ evaluation.parsersCreated <= 1
    /\ \A c, d \in Callers :
         (evaluation.returned[c] # 0 /\ evaluation.returned[d] # 0) =>
           evaluation.returned[c] = evaluation.returned[d]

\* ===================================================================
\* Part 14. The host application: the debounced rebuild of the tree
\* ===================================================================
MaxTimers == 3      \* most window.setTimeout calls of the host explored

\* What getTreeStatus() reports of an instance, as far as the host shows it
getTreeStatus(self) ==
  [isDirty |-> self.dirty, pendingEditsCount |-> Len(self.pendingEdits)]

\* The host once ContextExtractor.create(model) resolved and the first
\* updateTreeStatus() ran: no timer was ever set (debounceTimeoutRef.current
\* is null, written 0; timer ids are positive).
HostMounted(self) ==
  [fn |-> "host",
   debounceTimeoutRef |-> 0,
   timers |-> {},
   timersSet |-> 0,
   treeStatus |-> getTreeStatus(self),
   last |-> "mount",
   threw |-> FALSE]

InitHost ==
  /\ buffer \in BufTexts
  /\ clock = 1
  /\ tree = NewTree(buffer, clock)
  /\ dirty = FALSE
  /\ lastParseTime = clock
  /\ pendingEdits = <<>>
  /\ received = 0
  /\ lastOp = [op |-> "create", parses |-> 1, treeEdits |-> 0, changes |-> 0,
               applied |-> <<>>, parse |-> "tree",
               outcome |-> "returned", result |-> "instance"]
  /\ evaluation = HostMounted(This)
  /\ IdleDedup
  /\ IdleCtx
  /\ IdleRepeat

\* clearTimeout(id): the browser forgets the timer if it is still pending
clearTimeout(timers, id) == timers \ {id}

\* debouncedRebuildTree(): clear the timer the ref names, if it names one, and
\* set a new timer whose id the ref then holds
debouncedRebuildTree(host) ==
  LET id == host.timersSet + 1
  IN  [host EXCEPT
         !.timers = (IF host.debounceTimeoutRef # 0
                     THEN clearTimeout(@, host.debounceTimeoutRef)
                     ELSE @) \cup {id},
         !.debounceTimeoutRef = id,
         !.timersSet = id]

\* The handler of model.onDidChangeContent: onModelContentChanged(e),
\* updateTreeStatus(), debouncedRebuildTree()
HostContentChanged ==
  \E ev \in EventsOn(buffer) :
    /\ evaluation.fn = "host"
    /\ evaluation.timersSet < MaxTimers
    /\ Len(ApplyEvent(buffer, ev)) <= MaxBufLen
    /\ Len(pendingEdits) + Len(ev) <= MaxQueue
    /\ buffer' = ApplyEvent(buffer, ev)
    /\ LET r == onModelContentChanged(This, ev)
       IN  /\ SetInstance(r)
           /\ evaluation' =
                debouncedRebuildTree([evaluation EXCEPT
                                        !.treeStatus = getTreeStatus(r.self),
                                        !.last = "change",
                                        !.threw = FALSE])
    /\ UNCHANGED <<clock, received, lastOp>>
    /\ UNCHANGED <<dedupVars, ctxVars, repeated>>

\* forceBuildTree() followed by updateTreeStatus(): an exception of the parser
\* leaves the callback before updateTreeStatus()
RebuildAndShow(host, via, outcome) ==
  LET r == PublicCall("forceBuildTree", This, buffer, clock, outcome)
  IN  /\ SetInstance(r)
      /\ evaluation' =
           [host EXCEPT
              !.treeStatus = IF r.threw THEN @ ELSE getTreeStatus(r.self),
              !.last = via,
              !.threw = r.threw]

\* The callback of the timer set by debouncedRebuildTree runs: the ref keeps
\* the id of the timer that fired
TimerFires ==
  \E id \in evaluation.timers, outcome \in ParseOutcomes :
    /\ evaluation.fn = "host"
    /\ WithinTreeEdits(outcome)
    /\ RebuildAndShow([evaluation EXCEPT !.timers = @ \ {id}], "timer", outcome)
    /\ UNCHANGED <<buffer, clock, received, lastOp>>
    /\ UNCHANGED <<dedupVars, ctxVars, repeated>>

\* syncTree(): the manual sync of the host
SyncTree ==
  \E outcome \in ParseOutcomes :
    /\ evaluation.fn = "host"
    /\ WithinTreeEdits(outcome)
    /\ RebuildAndShow(
         IF evaluation.debounceTimeoutRef # 0
         THEN [evaluation EXCEPT
                 !.timers = clearTimeout(@, evaluation.debounceTimeoutRef),
                 !.debounceTimeoutRef = 0]
         ELSE evaluation,
         "sync", outcome)
    /\ UNCHANGED <<buffer, clock, received, lastOp>>
    /\ UNCHANGED <<dedupVars, ctxVars, repeated>>

NextHost ==
  \/ HostContentChanged
  \/ TimerFires
  \/ SyncTree

SpecHost == InitHost /\ [][NextHost]_vars

\* The browser runs the callback of a pending timer once its delay has passed
SpecHostFair == SpecHost /\ WF_vars(TimerFires)

\* The status the host shows is clean
StatusClean ==
  /\ ~evaluation.treeStatus.isDirty
  /\ evaluation.treeStatus.pendingEditsCount = 0

\* C30: in the host, at most one rebuild timer is pending at any time and a
\* content change leaves exactly the timer it has just set; a manual sync
\* leaves no timer pending and the status clean; and once content changes
\* stop, the status the host shows becomes clean and stays clean.
C30_DebouncedRebuild ==
  /\ [](evaluation.fn = "host" =>
          /\ Cardinality(evaluation.timers) <= 1
          /\ (evaluation.last = "change" =>
                evaluation.timers = {evaluation.debounceTimeoutRef})
          /\ (evaluation.last = "sync" =>
                evaluation.timers = {} /\ StatusClean))
  /\ (<>[][~HostContentChanged]_vars => <>[]StatusClean)

====
